---- MODULE Spec2Model ----
(***************************************************************************)
(* Model of the prolific agent's core: the metadata snapshot diff          *)
(* (diff.py), the extension table (estimate.py), the snapshot store        *)
(* (state.py) and the run orchestrator run_once (run_cycle.py).            *)
(*                                                                         *)
(* Two specifications share the variables:                                 *)
(*   Spec      run_once cycles over the state directory;                   *)
(*   DiffSpec  compute_diff applied to a pair of snapshots.                *)
(***************************************************************************)
EXTENDS Integers, Sequences, FiniteSets, TLC

(* ------------------------------ bounds --------------------------------- *)

\* The largest byte delta of a language and the largest calibration (bytes per
\* line) of the estimate's inputs.
MaxDelta == 6
MaxBpl == 4

\* File sizes range over 0..MaxSize, modification times over 1..MaxMtime.
MaxSize == 1
MaxMtime == 2

Sizes == 0..MaxSize
Mtimes == 1..MaxMtime

(* --------------------------- estimate.py ------------------------------- *)

\* Python's None where a string is expected (language_from_ext).
NoLanguage == "None"

EXT_TO_LANGUAGE ==
  [e \in {"py", "pyi", "js", "cjs", "mjs", "jsx", "ts", "tsx", "html", "htm",
          "css", "scss", "sass", "less", "go", "rs", "java", "cs", "c", "h",
          "cc", "cpp", "cxx", "hpp", "hxx", "sql", "sh", "bash", "ps1"} |->
     CASE e \in {"py", "pyi"} -> "Python"
       [] e \in {"js", "cjs", "mjs", "jsx"} -> "JavaScript"
       [] e \in {"ts", "tsx"} -> "TypeScript"
       [] e \in {"html", "htm"} -> "HTML"
       [] e \in {"css", "scss", "sass", "less"} -> "CSS"
       [] e = "go" -> "Go"
       [] e = "rs" -> "Rust"
       [] e = "java" -> "Java"
       [] e = "cs" -> "C#"
       [] e \in {"c", "h"} -> "C"
       [] e \in {"cc", "cpp", "cxx", "hpp", "hxx"} -> "C++"
       [] e = "sql" -> "SQL"
       [] e \in {"sh", "bash", "ps1"} -> "Shell"]

\* str.lower() on the extensions the model uses.
Lower(ext) ==
  CASE ext = "PY" -> "py"
    [] ext = "PNG" -> "png"
    [] ext = "TS" -> "ts"
    [] OTHER -> ext

language_from_ext(ext) ==
  IF ext = "" THEN NoLanguage
  ELSE IF Lower(ext) \in DOMAIN EXT_TO_LANGUAGE THEN EXT_TO_LANGUAGE[Lower(ext)]
  ELSE NoLanguage

LocEstimates(net_loc, churn_loc) == [net_loc |-> net_loc, churn_loc |-> churn_loc]

\* abs(x)
Abs(x) == IF x < 0 THEN -x ELSE x

\* Mutant of Round: the quotient truncated toward zero.
Round_truncated(n, d) ==
  IF n >= 0 THEN n \div d ELSE -((-n) \div d)

\* int(round(n / d)) for d > 0: the nearest integer, a half going to the even
\* neighbour.
Round(n, d) ==
  LET q == n \div d
      r == n % d
  IN IF 2 * r < d THEN q
     ELSE IF 2 * r > d THEN q + 1
     ELSE IF q % 2 = 0 THEN q ELSE q + 1

\* int(bytes_per_loc.get(lang) or 0)
CalibrationOf(bytes_per_loc, lang) ==
  IF lang \in DOMAIN bytes_per_loc THEN bytes_per_loc[lang] ELSE 0

\* The loop over language_delta_bytes.items(): acc is (net, churn).
RECURSIVE EstimateLoop(_, _, _, _)
EstimateLoop(acc, language_delta_bytes, bytes_per_loc, langs) ==
  IF langs = {} THEN acc
  ELSE LET lang == CHOOSE l \in langs : TRUE
           delta_bytes == language_delta_bytes[lang]
           bpl == CalibrationOf(bytes_per_loc, lang)
           next == IF bpl <= 0 THEN acc
                   ELSE LocEstimates(acc.net_loc + Round(delta_bytes, bpl),
                                     acc.churn_loc + Round(Abs(delta_bytes), bpl))
       IN EstimateLoop(next, language_delta_bytes, bytes_per_loc, langs \ {lang})

estimate_loc_from_language_deltas(language_delta_bytes, bytes_per_loc) ==
  EstimateLoop(LocEstimates(0, 0), language_delta_bytes, bytes_per_loc,
               DOMAIN language_delta_bytes)

(* ---------------------------- scanner.py ------------------------------- *)

\* Path.suffix.lower().lstrip(".") of the relative paths the model uses.
SuffixOf(rel) ==
  CASE rel = "a.py" -> "py"
    [] rel = "b.png" -> "png"
    [] rel = "c.ts" -> "ts"
    [] rel = "d.pyi" -> "pyi"
    [] OTHER -> ""

FileMeta(rel, is_dir, size, mtime, ext) ==
  [rel_path |-> rel, is_dir |-> is_dir, size_bytes |-> size,
   mtime_ns |-> mtime, ext |-> ext]

\* The FileMeta a scan builds for a directory / a file found at rel.
DirMeta(rel, mtime) == FileMeta(rel, TRUE, 0, mtime, "")
RegMeta(rel, size, mtime) == FileMeta(rel, FALSE, size, mtime, SuffixOf(rel))

MetaOptions(rel) ==
  {DirMeta(rel, m) : m \in Mtimes}
    \cup {RegMeta(rel, s, m) : s \in Sizes, m \in Mtimes}

\* Every entries map a scan can return over the relative paths P.
EntriesOver(P) ==
  UNION {{e \in [S -> UNION {MetaOptions(r) : r \in S}] :
            \A r \in S : e[r] \in MetaOptions(r)} : S \in SUBSET P}

(* ----------------------------- state.py -------------------------------- *)

\* load_snapshot's None, and the content of a state file that does not exist.
None == [none |-> TRUE]

Snapshot(root, entries) == [schema_version |-> 1, root |-> root, entries |-> entries]

EmptyEntries == [r \in {} |-> 0]

\* A Snapshot with all its fields, as load_snapshot builds and save_snapshot
\* reads it.
StoredSnapshot(schema_version, root, created_at, entries) ==
  [schema_version |-> schema_version, root |-> root, created_at |-> created_at,
   entries |-> entries]

\* What load_snapshot raises.
JSONDecodeError == [raised |-> "JSONDecodeError"]
KeyErrorRaised == [raised |-> "KeyError"]

\* A file: the JSON document written to it and whether all of its text is in
\* the file; a file that does not exist is None.
File(doc, complete) == [doc |-> doc, complete |-> complete]

\* d.get(k, default)
Get(d, k, default) == IF k \in DOMAIN d THEN d[k] ELSE default

\* The keys of an entry that load_snapshot subscripts.
SubscriptedKeys == {"rel_path", "is_dir", "size_bytes", "mtime_ns"}

\* The FileMeta(...) call of load_snapshot on an entry that has the
\* subscripted keys.
LoadMeta(meta) ==
  FileMeta(meta["rel_path"], meta["is_dir"], meta["size_bytes"],
           meta["mtime_ns"], Get(meta, "ext", ""))

load_snapshot(file) ==
  IF file = None THEN None
  ELSE IF ~file.complete THEN JSONDecodeError
  ELSE LET raw == file.doc
           raw_entries == Get(raw, "entries", EmptyEntries)
       IN IF \E rel \in DOMAIN raw_entries :
               ~(SubscriptedKeys \subseteq DOMAIN raw_entries[rel])
          THEN KeyErrorRaised
          ELSE StoredSnapshot(
                 Get(raw, "schema_version", 1), Get(raw, "root", ""),
                 Get(raw, "created_at", ""),
                 [rel \in DOMAIN raw_entries |-> LoadMeta(raw_entries[rel])])

\* meta.to_json(): asdict(self).
to_json(meta) ==
  [rel_path |-> meta.rel_path, is_dir |-> meta.is_dir,
   size_bytes |-> meta.size_bytes, mtime_ns |-> meta.mtime_ns, ext |-> meta.ext]

\* The dict raw of save_snapshot.
RawOf(snapshot) ==
  [schema_version |-> snapshot.schema_version, root |-> snapshot.root,
   created_at |-> snapshot.created_at,
   entries |-> [rel \in DOMAIN snapshot.entries |-> to_json(snapshot.entries[rel])]]

(* ----------------------- scanner.py: the walk --------------------------- *)

\* A path is the sequence of its segments: rel "sub/.git/config" is
\* <<"sub", ".git", "config">> and the scanned root is <<>>.

\* The directory names of default_excludes, each as the pattern "**/name/**".
DefaultExcludedNames ==
  {".git", ".hg", ".svn", ".idea", ".vscode", "__pycache__", ".venv", "venv",
   "node_modules", "dist", "build"}

\* The pattern "**/name/**".
UnderPattern(name) == [kind |-> "under", name |-> name]

\* A caller's pattern "name/".
DirPattern(name) == [kind |-> "dir", name |-> name]

default_excludes == {UnderPattern(n) : n \in DefaultExcludedNames}

\* fnmatch(rel_posix, "**/name/**"): the text of rel has "/name/" inside it,
\* which is a segment name that is neither the first nor the last.
fnmatch(rel, pat) ==
  \E i \in 2..(Len(rel) - 1) : rel[i] = pat.name

\* _is_excluded: a pattern ending in "/" becomes "**/name/**" first.
_is_excluded(rel, exclude_globs) ==
  \E pat \in exclude_globs :
    LET translated == IF pat.kind = "dir" THEN UnderPattern(pat.name) ELSE pat
    IN fnmatch(rel, translated)

ScanResult(entries, skipped) == [entries |-> entries, skipped |-> skipped]

\* An exception of the walk leaving scan_folder_metadata_only.
ScanRaised == [raised |-> "OSError"]

\* The children of dir_path in the tree fs.nodes.
Children(fs, dir_path) ==
  {c \in DOMAIN fs.nodes :
     Len(c) = Len(dir_path) + 1 /\ SubSeq(c, 1, Len(dir_path)) = dir_path}

\* Mutant of IoOfStat: the child is opened to measure it.
IoOfStat_open(child) == <<"open", child>>

\* The I/O of child.stat(follow_symlinks=False).
IoOfStat(child) == <<"stat", child>>

\* The I/O of dir_path.iterdir().
IoOfIterdir(dir_path) == <<"iterdir", dir_path>>

\* The state of a walk: entries and skipped of scan_folder_metadata_only, the
\* I/O done so far, and whether an exception is propagating.
WalkState(entries, skipped, ops, aborted) ==
  [entries |-> entries, skipped |-> skipped, ops |-> ops, aborted |-> aborted]

\* walk(dir_path, depth) with max_depth None, and the body of its loop over
\* the children. A listing that fails is caught by the except of walk where
\* iterdir lists at the call (fs.lazy_iterdir FALSE: Python 3.13), and raised
\* inside the for statement, outside the try, where iterdir is a generator
\* (fs.lazy_iterdir TRUE: Python up to 3.12).
RECURSIVE Walk(_, _, _, _)
RECURSIVE WalkChildren(_, _, _, _)
Walk(acc, fs, excludes, dir_path) ==
  IF acc.aborted THEN acc
  ELSE LET listed == [acc EXCEPT !.ops = @ \cup {IoOfIterdir(dir_path)}]
       IN IF dir_path \in fs.list_fails
          THEN IF fs.lazy_iterdir THEN [listed EXCEPT !.aborted = TRUE]
               ELSE [listed EXCEPT !.skipped = @ + 1]
          ELSE WalkChildren(listed, fs, excludes, Children(fs, dir_path))

WalkChildren(acc, fs, excludes, children) ==
  IF children = {} \/ acc.aborted THEN acc
  ELSE LET child == CHOOSE c \in children : TRUE
           rel == child
           rest == children \ {child}
       IN IF _is_excluded(rel, excludes)
          THEN WalkChildren(acc, fs, excludes, rest)
          ELSE LET tried == [acc EXCEPT !.ops = @ \cup {IoOfStat(child)}]
               IN IF child \in fs.stat_fails
                  THEN WalkChildren([tried EXCEPT !.skipped = @ + 1],
                                    fs, excludes, rest)
                  ELSE LET st == fs.nodes[child]
                           is_dir == st.is_dir
                           ext == IF is_dir THEN "" ELSE Lower(SuffixOf(rel[Len(rel)]))
                           size == IF is_dir THEN 0 ELSE st.size
                           meta == FileMeta(rel, is_dir, size, st.mtime_ns, ext)
                           put == [tried EXCEPT !.entries =
                                     [r \in DOMAIN @ \cup {rel} |->
                                        IF r = rel THEN meta ELSE @[r]]]
                           after == IF is_dir THEN Walk(put, fs, excludes, child)
                                    ELSE put
                       IN WalkChildren(after, fs, excludes, rest)

\* scan_folder_metadata_only(root, exclude_globs=...): the ScanResult or the
\* exception, with the I/O it did on the tree.
scan_folder_metadata_only(fs, exclude_globs) ==
  LET excludes == default_excludes \cup exclude_globs
      walked == Walk(WalkState(EmptyEntries, 0, {}, FALSE), fs, excludes, <<>>)
      filtered_entries ==
        [rel \in {r \in DOMAIN walked.entries : ~_is_excluded(r, excludes)} |->
           walked.entries[rel]]
  IN [result |-> IF walked.aborted THEN ScanRaised
                 ELSE ScanResult(filtered_entries, walked.skipped),
      ops |-> walked.ops]

(* ------------------------------ diff.py -------------------------------- *)

DiffCounts(fa, fr, fm, da, dr, dm, aa, am, ar) ==
  [files_added |-> fa, files_removed |-> fr, files_modified |-> fm,
   folders_added |-> da, folders_removed |-> dr, folders_modified |-> dm,
   assets_added |-> aa, assets_modified |-> am, assets_removed |-> ar]

DiffAggregates(counts, langs, unknown, total) ==
  [counts |-> counts, language_delta_bytes |-> langs,
   unknown_delta_bytes |-> unknown, total_delta_bytes |-> total]

\* An empty dict[str, int].
EmptyDict == [k \in {} |-> 0]

\* d[k] = d.get(k, 0) + v
DictAdd(d, k, v) ==
  [x \in DOMAIN d \cup {k} |->
     IF x = k THEN (IF k \in DOMAIN d THEN d[k] ELSE 0) + v ELSE d[x]]

\* The counters and sums of compute_diff before its loops.
ZeroAggregates ==
  DiffAggregates(DiffCounts(0, 0, 0, 0, 0, 0, 0, 0, 0), EmptyDict, 0, 0)

\* Mutant of Accumulate: the delta of an unclassified file is not added to the
\* unknown sum.
Accumulate_unknown_untouched(acc, delta, ext, asset_field) ==
  LET lang == language_from_ext(ext)
      withTotal == [acc EXCEPT !.total_delta_bytes = @ + delta]
  IN IF lang = NoLanguage
     THEN [withTotal EXCEPT !.counts[asset_field] = @ + 1]
     ELSE [withTotal EXCEPT !.language_delta_bytes = DictAdd(@, lang, delta)]

\* total_delta_bytes += delta, then the language or the unknown sum, and the
\* asset counter named by asset_field, as the three loops do after a file delta.
Accumulate(acc, delta, ext, asset_field) ==
  LET lang == language_from_ext(ext)
      withTotal == [acc EXCEPT !.total_delta_bytes = @ + delta]
  IN IF lang = NoLanguage
     THEN [withTotal EXCEPT !.counts[asset_field] = @ + 1,
                            !.unknown_delta_bytes = @ + delta]
     ELSE [withTotal EXCEPT !.language_delta_bytes = DictAdd(@, lang, delta)]

\* Mutant of StepAdded: the bytes of an added file are booked under the file's
\* relative path, a per-file breakdown.
StepAdded_booked_per_path(acc, meta) ==
  IF meta.is_dir
  THEN [acc EXCEPT !.counts.folders_added = @ + 1]
  ELSE [acc EXCEPT !.counts.files_added = @ + 1,
                   !.total_delta_bytes = @ + meta.size_bytes,
                   !.language_delta_bytes =
                      DictAdd(@, meta.rel_path, meta.size_bytes)]

\* Mutant of StepAdded: the directory branch falls through to the file branch.
StepAdded_no_continue(acc, meta) ==
  LET counted == IF meta.is_dir THEN [acc EXCEPT !.counts.folders_added = @ + 1]
                 ELSE acc
  IN Accumulate([counted EXCEPT !.counts.files_added = @ + 1],
                meta.size_bytes, meta.ext, "assets_added")

\* Body of `for rel in added`.
StepAdded(acc, meta) ==
  IF meta.is_dir
  THEN [acc EXCEPT !.counts.folders_added = @ + 1]
  ELSE Accumulate([acc EXCEPT !.counts.files_added = @ + 1],
                  meta.size_bytes, meta.ext, "assets_added")

\* Mutant of StepRemoved: a removed file is counted, its bytes are not.
StepRemoved_bytes_kept(acc, meta) ==
  IF meta.is_dir
  THEN [acc EXCEPT !.counts.folders_removed = @ + 1]
  ELSE Accumulate([acc EXCEPT !.counts.files_removed = @ + 1],
                  0, meta.ext, "assets_removed")

\* Mutant of StepRemoved: the delta of a removed file is +size.
StepRemoved_positive_delta(acc, meta) ==
  IF meta.is_dir
  THEN [acc EXCEPT !.counts.folders_removed = @ + 1]
  ELSE Accumulate([acc EXCEPT !.counts.files_removed = @ + 1],
                  meta.size_bytes, meta.ext, "assets_removed")

\* Body of `for rel in removed`.
StepRemoved(acc, meta) ==
  IF meta.is_dir
  THEN [acc EXCEPT !.counts.folders_removed = @ + 1]
  ELSE Accumulate([acc EXCEPT !.counts.files_removed = @ + 1],
                  -meta.size_bytes, meta.ext, "assets_removed")

\* Mutant of StepCommon: a common file that shrank has delta 0.
StepCommon_growth_only(acc, old_meta, new_meta) ==
  IF old_meta.is_dir # new_meta.is_dir
  THEN IF old_meta.is_dir
       THEN [acc EXCEPT !.counts.folders_removed = @ + 1,
                        !.counts.files_added = @ + 1,
                        !.total_delta_bytes = @ + new_meta.size_bytes]
       ELSE [acc EXCEPT !.counts.files_removed = @ + 1,
                        !.counts.folders_added = @ + 1,
                        !.total_delta_bytes = @ - old_meta.size_bytes]
  ELSE IF new_meta.is_dir
  THEN IF new_meta.mtime_ns # old_meta.mtime_ns
       THEN [acc EXCEPT !.counts.folders_modified = @ + 1]
       ELSE acc
  ELSE IF new_meta.size_bytes # old_meta.size_bytes
          \/ new_meta.mtime_ns # old_meta.mtime_ns
  THEN Accumulate([acc EXCEPT !.counts.files_modified = @ + 1],
                  IF new_meta.size_bytes > old_meta.size_bytes
                  THEN new_meta.size_bytes - old_meta.size_bytes ELSE 0,
                  new_meta.ext, "assets_modified")
  ELSE acc

\* Mutant of StepCommon: a type flip leaves total_delta_bytes alone.
StepCommon_flip_without_total(acc, old_meta, new_meta) ==
  IF old_meta.is_dir # new_meta.is_dir
  THEN IF old_meta.is_dir
       THEN [acc EXCEPT !.counts.folders_removed = @ + 1,
                        !.counts.files_added = @ + 1]
       ELSE [acc EXCEPT !.counts.files_removed = @ + 1,
                        !.counts.folders_added = @ + 1]
  ELSE IF new_meta.is_dir
  THEN IF new_meta.mtime_ns # old_meta.mtime_ns
       THEN [acc EXCEPT !.counts.folders_modified = @ + 1]
       ELSE acc
  ELSE IF new_meta.size_bytes # old_meta.size_bytes
          \/ new_meta.mtime_ns # old_meta.mtime_ns
  THEN Accumulate([acc EXCEPT !.counts.files_modified = @ + 1],
                  new_meta.size_bytes - old_meta.size_bytes, new_meta.ext,
                  "assets_modified")
  ELSE acc

\* Mutant of StepCommon: the mtime test of a common file is >= instead of !=.
StepCommon_mtime_not_older(acc, old_meta, new_meta) ==
  IF old_meta.is_dir # new_meta.is_dir
  THEN IF old_meta.is_dir
       THEN [acc EXCEPT !.counts.folders_removed = @ + 1,
                        !.counts.files_added = @ + 1,
                        !.total_delta_bytes = @ + new_meta.size_bytes]
       ELSE [acc EXCEPT !.counts.files_removed = @ + 1,
                        !.counts.folders_added = @ + 1,
                        !.total_delta_bytes = @ - old_meta.size_bytes]
  ELSE IF new_meta.is_dir
  THEN IF new_meta.mtime_ns # old_meta.mtime_ns
       THEN [acc EXCEPT !.counts.folders_modified = @ + 1]
       ELSE acc
  ELSE IF new_meta.size_bytes # old_meta.size_bytes
          \/ new_meta.mtime_ns >= old_meta.mtime_ns
  THEN Accumulate([acc EXCEPT !.counts.files_modified = @ + 1],
                  new_meta.size_bytes - old_meta.size_bytes, new_meta.ext,
                  "assets_modified")
  ELSE acc

\* Mutant of StepCommon: a common file counts as modified only when its size
\* differs.
StepCommon_size_only(acc, old_meta, new_meta) ==
  IF old_meta.is_dir # new_meta.is_dir
  THEN IF old_meta.is_dir
       THEN [acc EXCEPT !.counts.folders_removed = @ + 1,
                        !.counts.files_added = @ + 1,
                        !.total_delta_bytes = @ + new_meta.size_bytes]
       ELSE [acc EXCEPT !.counts.files_removed = @ + 1,
                        !.counts.folders_added = @ + 1,
                        !.total_delta_bytes = @ - old_meta.size_bytes]
  ELSE IF new_meta.is_dir
  THEN IF new_meta.mtime_ns # old_meta.mtime_ns
       THEN [acc EXCEPT !.counts.folders_modified = @ + 1]
       ELSE acc
  ELSE IF new_meta.size_bytes # old_meta.size_bytes
  THEN Accumulate([acc EXCEPT !.counts.files_modified = @ + 1],
                  new_meta.size_bytes - old_meta.size_bytes, new_meta.ext,
                  "assets_modified")
  ELSE acc

\* Mutant of StepCommon: a type flip is also classified like an added or a
\* removed file (asset counter, language or unknown sum).
StepCommon_flip_classified(acc, old_meta, new_meta) ==
  IF old_meta.is_dir # new_meta.is_dir
  THEN IF old_meta.is_dir
       THEN Accumulate([acc EXCEPT !.counts.folders_removed = @ + 1,
                                   !.counts.files_added = @ + 1],
                       new_meta.size_bytes, new_meta.ext, "assets_added")
       ELSE Accumulate([acc EXCEPT !.counts.files_removed = @ + 1,
                                   !.counts.folders_added = @ + 1],
                       -old_meta.size_bytes, old_meta.ext, "assets_removed")
  ELSE IF new_meta.is_dir
  THEN IF new_meta.mtime_ns # old_meta.mtime_ns
       THEN [acc EXCEPT !.counts.folders_modified = @ + 1]
       ELSE acc
  ELSE IF new_meta.size_bytes # old_meta.size_bytes
          \/ new_meta.mtime_ns # old_meta.mtime_ns
  THEN Accumulate([acc EXCEPT !.counts.files_modified = @ + 1],
                  new_meta.size_bytes - old_meta.size_bytes, new_meta.ext,
                  "assets_modified")
  ELSE acc

\* Body of `for rel in common`.
StepCommon(acc, old_meta, new_meta) ==
  IF old_meta.is_dir # new_meta.is_dir
  THEN IF old_meta.is_dir
       THEN [acc EXCEPT !.counts.folders_removed = @ + 1,
                        !.counts.files_added = @ + 1,
                        !.total_delta_bytes = @ + new_meta.size_bytes]
       ELSE [acc EXCEPT !.counts.files_removed = @ + 1,
                        !.counts.folders_added = @ + 1,
                        !.total_delta_bytes = @ - old_meta.size_bytes]
  ELSE IF new_meta.is_dir
  THEN IF new_meta.mtime_ns # old_meta.mtime_ns
       THEN [acc EXCEPT !.counts.folders_modified = @ + 1]
       ELSE acc
  ELSE IF new_meta.size_bytes # old_meta.size_bytes
          \/ new_meta.mtime_ns # old_meta.mtime_ns
  THEN Accumulate([acc EXCEPT !.counts.files_modified = @ + 1],
                  new_meta.size_bytes - old_meta.size_bytes, new_meta.ext,
                  "assets_modified")
  ELSE acc

RECURSIVE LoopAdded(_, _, _)
LoopAdded(acc, rels, new_entries) ==
  IF rels = {} THEN acc
  ELSE LET rel == CHOOSE r \in rels : TRUE
       IN LoopAdded(StepAdded(acc, new_entries[rel]), rels \ {rel}, new_entries)

RECURSIVE LoopRemoved(_, _, _)
LoopRemoved(acc, rels, old_entries) ==
  IF rels = {} THEN acc
  ELSE LET rel == CHOOSE r \in rels : TRUE
       IN LoopRemoved(StepRemoved(acc, old_entries[rel]), rels \ {rel}, old_entries)

RECURSIVE LoopCommon(_, _, _, _)
LoopCommon(acc, rels, old_entries, new_entries) ==
  IF rels = {} THEN acc
  ELSE LET rel == CHOOSE r \in rels : TRUE
       IN LoopCommon(StepCommon(acc, old_entries[rel], new_entries[rel]),
                     rels \ {rel}, old_entries, new_entries)

\* old.entries if old else {}
OldEntries(old_snapshot) ==
  IF old_snapshot = None THEN EmptyEntries ELSE old_snapshot.entries

compute_diff(old_snapshot, new_snapshot) ==
  LET old_entries == OldEntries(old_snapshot)
      new_entries == new_snapshot.entries
      old_keys == DOMAIN old_entries
      new_keys == DOMAIN new_entries
      afterAdded == LoopAdded(ZeroAggregates, new_keys \ old_keys, new_entries)
      afterRemoved == LoopRemoved(afterAdded, old_keys \ new_keys, old_entries)
  IN LoopCommon(afterRemoved, old_keys \cap new_keys, old_entries, new_entries)

\* merge_diff_aggregates: the element-wise sum over the list of diffs.
\* Mutant of MergeTwo: a language of both dicts keeps the later value.
MergeTwo_last_language_wins(a, b) ==
  DiffAggregates(
    [f \in DOMAIN a.counts |-> a.counts[f] + b.counts[f]],
    [l \in DOMAIN a.language_delta_bytes \cup DOMAIN b.language_delta_bytes |->
       IF l \in DOMAIN b.language_delta_bytes THEN b.language_delta_bytes[l]
       ELSE a.language_delta_bytes[l]],
    a.unknown_delta_bytes + b.unknown_delta_bytes,
    a.total_delta_bytes + b.total_delta_bytes)

RECURSIVE MergeLanguages(_, _, _)
MergeLanguages(acc, d, langs) ==
  IF langs = {} THEN acc
  ELSE LET lang == CHOOSE l \in langs : TRUE
       IN MergeLanguages(DictAdd(acc, lang, d[lang]), d, langs \ {lang})

MergeTwo(a, b) ==
  DiffAggregates(
    [f \in DOMAIN a.counts |-> a.counts[f] + b.counts[f]],
    MergeLanguages(a.language_delta_bytes, b.language_delta_bytes,
                   DOMAIN b.language_delta_bytes),
    a.unknown_delta_bytes + b.unknown_delta_bytes,
    a.total_delta_bytes + b.total_delta_bytes)

\* Mutant of merge_diff_aggregates: only the first diff is reported.
merge_diff_aggregates_first_only(ds) ==
  IF ds = <<>> THEN ZeroAggregates ELSE ds[1]

RECURSIVE merge_diff_aggregates(_)
merge_diff_aggregates(ds) ==
  IF ds = <<>> THEN ZeroAggregates
  ELSE MergeTwo(merge_diff_aggregates(SubSeq(ds, 1, Len(ds) - 1)), ds[Len(ds)])

(* ---------------------------- privacy.py ------------------------------- *)

(* ------------------------------ activity.py ----------------------------- *)

LanguageSummary(language, delta_bytes, estimated_loc_delta) ==
  [language |-> language, delta_bytes |-> delta_bytes,
   estimated_loc_delta |-> estimated_loc_delta]

ActivitySummary(counts, total, unknown, net_loc, churn_loc, languages) ==
  [counts |-> counts, total_delta_bytes |-> total,
   unknown_delta_bytes |-> unknown, net_loc |-> net_loc,
   churn_loc |-> churn_loc, languages |-> languages]

\* The language names of EXT_TO_LANGUAGE in the order of their lower-cased
\* names, the key of the sort in build_activity_summary.
LanguagesSorted ==
  <<"C", "C#", "C++", "CSS", "Go", "HTML", "Java", "JavaScript", "Python",
    "Rust", "Shell", "SQL", "TypeScript">>

\* The keys of a set in some fixed order.
RECURSIVE SeqOfKeys(_)
SeqOfKeys(keys) ==
  IF keys = {} THEN <<>>
  ELSE LET k == CHOOSE x \in keys : TRUE IN <<k>> \o SeqOfKeys(keys \ {k})

\* sorted(d.items(), key=lambda kv: kv[0].lower()), the keys only.  A key that
\* is no language name of EXT_TO_LANGUAGE is placed after the language names.
SortedKeys(d) ==
  LET known == SelectSeq(LanguagesSorted, LAMBDA l : l \in DOMAIN d)
      names == {LanguagesSorted[i] : i \in DOMAIN LanguagesSorted}
  IN known \o SeqOfKeys(DOMAIN d \ names)

build_activity_summary(diff, bytes_per_loc) ==
  LET est == estimate_loc_from_language_deltas(diff.language_delta_bytes,
                                               bytes_per_loc)
      keys == SortedKeys(diff.language_delta_bytes)
      langs == [i \in DOMAIN keys |->
                  LET language == keys[i]
                      delta_bytes == diff.language_delta_bytes[language]
                      bpl == CalibrationOf(bytes_per_loc, language)
                  IN LanguageSummary(language, delta_bytes,
                                     IF bpl > 0 THEN Round(delta_bytes, bpl)
                                     ELSE 0)]
  IN ActivitySummary(diff.counts, diff.total_delta_bytes,
                     diff.unknown_delta_bytes, est.net_loc, est.churn_loc,
                     langs)

(* ------------------------------- report.py ------------------------------ *)

build_event_payload(event_id, summary, ids) ==
  [schema_version |-> 1,
   event_id |-> event_id,
   watch_folders |-> IF ids = <<>> THEN <<"Project-unknown">> ELSE ids,
   counts |-> summary.counts,
   total_delta_bytes |-> summary.total_delta_bytes,
   unknown_delta_bytes |-> summary.unknown_delta_bytes,
   net_loc_estimate |-> summary.net_loc,
   churn_loc_estimate |-> summary.churn_loc,
   languages |-> summary.languages]


\* The pseudonymous id of a project directory (a keyed hash of its resolved
\* path, here one id per path).
project_id_for_watch_path(subdir) == <<"Project", subdir>>

(* -------------------------- run_cycle.py: discovery --------------------- *)
\* A name is the sequence of its characters; a path below the watch root is
\* the sequence of its names, the watch root itself the empty sequence.

\* Mutant of startswith_dot: a dot anywhere in the name.
startswith_dot_anywhere(name) == \E i \in DOMAIN name : name[i] = "."

\* p.name.startswith('.')
startswith_dot(name) == Len(name) >= 1 /\ name[1] = "."

\* A child of the watch root as iterdir yields it: its name and what
\* Path.is_dir answers for it.
Child(name, is_dir) == [name |-> name, is_dir |-> is_dir]

\* The order of a list comprehension over iterdir: every order of the set.
RECURSIVE Orders(_)
Orders(S) ==
  IF S = {} THEN {<<>>}
  ELSE UNION {{<<x>> \o rest : rest \in Orders(S \ {x})} : x \in S}

\* The values `subdirs` can take for a watch root `parent`.
DiscoverSubdirs(parent) ==
  LET kept == IF parent.is_dir
              THEN {<<c.name>> : c \in {k \in parent.children :
                                          k.is_dir /\ ~startswith_dot(k.name)}}
              ELSE {<<>>}
  IN IF kept = {} THEN {<< <<>> >>} ELSE Orders(kept)

(* --------------------- run_cycle.py: what run_once returns -------------- *)

\* The dict of the early return `if not diffs`.
NoActivityReturn(first_scans) ==
  [event_id |-> "None",
   message |-> "No activity detected - baseline only",
   projects_with_activity |-> 0,
   first_scan_projects |-> first_scans,
   state_dir |-> "state",
   watch_folders |-> <<"watch">>]

\* The dict of the return after reporting.
ActivityReturn(summary, ids, first_scans, skipped, git_status, created) ==
  [event_id |-> "event",
   report_json |-> "reports/event.json",
   report_md |-> "reports/event.md",
   viz_events |-> "viz/events.jsonl",
   git |-> git_status,
   activity_repo_readme |-> "README.md",
   activity_repo_readme_created |-> created,
   counts |-> summary.counts,
   net_loc_estimate |-> summary.net_loc,
   churn_loc_estimate |-> summary.churn_loc,
   total_delta_bytes |-> summary.total_delta_bytes,
   skipped_paths |-> skipped,
   state_dir |-> "state",
   watch_folders |-> <<"watch">>,
   projects_with_activity |-> Len(ids),
   first_scan_projects |-> first_scans]

(* --------------------------------- cli.py ------------------------------- *)

\* The keys cmd_run reads by subscript, in the order of its prints.
CmdRunSubscripts ==
  <<"event_id", "net_loc_estimate", "churn_loc_estimate", "total_delta_bytes",
    "skipped_paths", "report_json", "report_md", "viz_events", "state_dir">>

\* `return n` of cmd_run.
Return(n) == [returned |-> n]

\* result[key] of a dict without the key.
KeyError(key) == [raised |-> "KeyError", key |-> key]

\* The prints of cmd_run from the i-th on: the keys printed so far and the
\* return value, or the KeyError that leaves cmd_run.
RECURSIVE CmdRunPrints(_, _, _)
CmdRunPrints(dict, i, out) ==
  IF i > Len(CmdRunSubscripts) THEN [printed |-> out, exit_code |-> Return(0)]
  ELSE IF CmdRunSubscripts[i] \notin DOMAIN dict
       THEN [printed |-> out, exit_code |-> KeyError(CmdRunSubscripts[i])]
       ELSE CmdRunPrints(dict, i + 1, Append(out, CmdRunSubscripts[i]))

(* --------------------------- run_cycle.py ------------------------------ *)

\* The project directories a cycle can discover under the watch roots.
Projects == {"proj1", "proj2"}

\* The orders in which a cycle can meet its projects (iterdir order).
DiscoveredLists == {<<"proj1">>, <<"proj1", "proj2">>}

\* The relative paths a project tree of the orchestrator model can hold.
TreePaths == {"a.py"}

\* snapshot_from_scan(scan_folder_metadata_only(subdir)): root and entries.
ScanResults(subdir) == {Snapshot(subdir, e) : e \in EntriesOver(TreePaths)}

\* state_dir / "state" / sha1(resolved path)[:16] + ".json": one per path.
_state_path_for_watch_dir(subdir) ==
  IF subdir = "proj1" THEN "state/h1.json" ELSE "state/h2.json"

StateFiles == {_state_path_for_watch_dir(p) : p \in Projects}

\* Python's None for the state_path argument.
NoPath == "None"

\* The paths a caller passes as an explicit state_path argument.
ExplicitStatePaths == {"state/h1.json"}

\* per_watch_state = state_path or _state_path_for_watch_dir(state_dir, subdir)
PerWatchState(explicit_state_path, subdir) ==
  IF explicit_state_path # NoPath THEN explicit_state_path
  ELSE _state_path_for_watch_dir(subdir)

\* Mutant of _is_first_run: the marker is looked up where it never is.
_is_first_run_wrong_path(marker_exists) == TRUE

\* _is_first_run: the marker file does not exist.
_is_first_run(marker_exists) == ~marker_exists

\* Mutant of has_changes: folder changes count as activity too.
has_changes_with_folders(subdir_diff) ==
  \/ subdir_diff.counts.files_added > 0
  \/ subdir_diff.counts.files_modified > 0
  \/ subdir_diff.counts.files_removed > 0
  \/ subdir_diff.counts.folders_added > 0
  \/ subdir_diff.counts.folders_modified > 0
  \/ subdir_diff.counts.folders_removed > 0
  \/ subdir_diff.total_delta_bytes # 0

\* has_changes, for a project that has a previous snapshot.
has_changes(subdir_diff) ==
  \/ subdir_diff.counts.files_added > 0
  \/ subdir_diff.counts.files_modified > 0
  \/ subdir_diff.counts.files_removed > 0
  \/ subdir_diff.total_delta_bytes # 0

\* Mutant of has_files: only the byte total decides.
has_files_bytes_only(subdir_diff) == subdir_diff.total_delta_bytes # 0

\* has_files, for a new project compared to the empty snapshot.
has_files(subdir_diff) ==
  \/ subdir_diff.counts.files_added > 0
  \/ subdir_diff.total_delta_bytes # 0

\* What run_once has returned: nothing yet (not called, or the call is still
\* running), an exception, or its dict.
NotRun == [not_run |-> TRUE]
Raised == [raised |-> TRUE]
\* The exception of load_snapshot (json.JSONDecodeError, KeyError) leaving
\* run_once.
LoadRaised == [raised_by |-> "load_snapshot"]

\* A state file that load_snapshot cannot read: a prefix of a JSON document
\* (a save that stopped after the open) or a document without a key that
\* load_snapshot subscripts.
Malformed == [malformed |-> TRUE]

NoActivityResult(fsp) ==
  [event_id |-> "None", projects_with_activity |-> 0, first_scan_projects |-> fsp]

\* cfg.bytes_per_loc of the cycles: a calibration of Python, the language of
\* the watched trees.
CfgBytesPerLoc == [l \in {"Python"} |-> 1]

ActivityResult(merged, ids, fsp) ==
  [event_id |-> "event", projects_with_activity |-> Len(ids),
   first_scan_projects |-> fsp, project_ids |-> ids,
   counts |-> merged.counts,
   language_delta_bytes |-> merged.language_delta_bytes,
   unknown_delta_bytes |-> merged.unknown_delta_bytes,
   total_delta_bytes |-> merged.total_delta_bytes,
   net_loc_estimate |->
     build_activity_summary(merged, CfgBytesPerLoc).net_loc,
   churn_loc_estimate |->
     build_activity_summary(merged, CfgBytesPerLoc).churn_loc]

\* The history of the cycles run with default state files, kept by LedgerSpec
\* only: per project the file bytes of its first-run baseline (0 for a project
\* first seen later) and the sum of total_delta_bytes of its diffs that went
\* into a report.
LedgerOff == [off |-> TRUE]
NewLedger == [base |-> [p \in {} |-> 0], reported |-> [p \in {} |-> 0]]

\* The history kept by QuietSpec only: the projects of the last cycle that
\* returned, and whether the running cycle has the projects of that cycle and
\* has so far found every tree as that cycle scanned and saved it.
CalmOff == [off |-> TRUE]
NewCalm == [last_projects |-> <<>>, quiet |-> FALSE]

\* Sum of size_bytes over the files of a snapshot.
RECURSIVE SizeOfFiles(_, _)
SizeOfFiles(entries, rels) ==
  IF rels = {} THEN 0
  ELSE LET r == CHOOSE x \in rels : TRUE
       IN (IF entries[r].is_dir THEN 0 ELSE entries[r].size_bytes)
            + SizeOfFiles(entries, rels \ {r})
TotalFileBytes(snapshot) == SizeOfFiles(snapshot.entries, DOMAIN snapshot.entries)

\* The reported sums after the diffs ds of the projects with ids went into a
\* report.
RECURSIVE AddReported(_, _, _)
AddReported(reported, ids, ds) ==
  IF ids = <<>> THEN reported
  ELSE LET subdir == ids[1][2]
           sofar == IF subdir \in DOMAIN reported THEN reported[subdir] ELSE 0
       IN AddReported(
            [x \in DOMAIN reported \cup {subdir} |->
               IF x = subdir THEN sofar + ds[1].total_delta_bytes
               ELSE reported[x]],
            Tail(ids), Tail(ds))

\* What the report stage leaves in the activity repository, in the order of
\* its calls: the README, the two report files, the viz event, the git step.
ReportStages ==
  <<"readme", "report_json", "report_md", "viz_event", "git">>
OutputsUpTo(n) == {ReportStages[i] : i \in 1..n}
AllOutputs == OutputsUpTo(Len(ReportStages))
\* What is left when ensure_activity_repo_readme, write_report_files (at its
\* first or its second file) or append_event raises.
PartialOutputs == {OutputsUpTo(n) : n \in 0..3}

VARIABLES
  marker,               \* known_projects.json exists in the state directory
  files,                \* state file path -> persisted Snapshot, or None
  pc,                   \* "idle", "loop" (project loop), "report"
  state_path,           \* run_once's state_path argument
  is_first_run,         \* local of run_once
  projects,             \* the subdirs this cycle iterates over, in order
  idx,                  \* position of the loop in projects
  diffs,                \* local list of qualifying diffs
  project_ids,          \* local list of ids with activity
  first_scan_projects,  \* local list of baselined projects
  prev,                 \* local: load_snapshot's result, last iteration
  snap,                 \* local: the scanned snapshot, last iteration
  subdir_diff,          \* local: the diff of the last iteration, or None
  result,               \* what the last call of run_once returned
  fresh,                \* history: no discovered project had a state file at start
  scanned,              \* history: project -> snapshot scanned in this cycle
  used,                 \* history: project -> state file it loaded and saved
  outputs,              \* history: what this cycle wrote to the activity repo
  ledger,               \* history of reported bytes, or LedgerOff (LedgerSpec)
  calm,                 \* history of unchanged trees, or CalmOff  (QuietSpec)
  old,                  \* compute_diff's first argument   (DiffSpec)
  new,                  \* compute_diff's second argument  (DiffSpec)
  agg,                  \* compute_diff's result           (DiffSpec)
  dpc,                  \* "off", "input", "done"          (DiffSpec)
  mdiffs,               \* merge_diff_aggregates' argument (MergeSpec)
  merged,               \* merge_diff_aggregates' result   (MergeSpec)
  mpc,                  \* "off", "input", "done"          (MergeSpec)
  lang_deltas,          \* the estimate's language_delta_bytes (EstimateSpec)
  bytes_per_loc,        \* the estimate's calibration      (EstimateSpec)
  loc,                  \* the estimate's result           (EstimateSpec)
  epc,                  \* "off", "input", "done"          (EstimateSpec)
  disk,                 \* the file at the snapshot's path, or None (StoreSpec)
  spc,                  \* "off", "idle", "writing"         (StoreSpec)
  saving,               \* save_snapshot's snapshot argument (StoreSpec)
  before,               \* history: the file when the last save began
  interrupted,          \* history: the last save failed
  loaded,               \* the last load_snapshot's result  (StoreSpec)
  fs,                   \* the scanned tree, its failures, the runtime (ScanSpec)
  exclude_globs,        \* the caller's exclusion patterns  (ScanSpec)
  scan,                 \* the scan's result and its I/O    (ScanSpec)
  total_skipped,        \* local of run_once                (ScanSpec)
  scpc,                 \* "off", "input", "scanned", "done", "failed"
  payload_in,           \* the calibration and project ids (PayloadSpec)
  payload,              \* build_event_payload's result     (PayloadSpec)
  ppc,                  \* "off", "input", "done"           (PayloadSpec)
  watch_root,           \* the watch root and its children  (DiscoverSpec)
  subdirs,              \* local of run_once, or None       (DiscoverSpec)
  vpc,                  \* "off", "input", "done", "failed" (DiscoverSpec)
  cli_result,           \* cmd_run's local `result`         (CliSpec)
  printed,              \* the keys cmd_run has printed     (CliSpec)
  exit_code,            \* cmd_run's return value, or None  (CliSpec)
  cpc                   \* "off", "called", "done"          (CliSpec)

orchVars == <<marker, files, pc, state_path, is_first_run, projects, idx, diffs,
              project_ids, first_scan_projects, prev, snap, subdir_diff, result,
              fresh, scanned, used, outputs, ledger, calm>>
diffVars == <<old, new, agg, dpc>>
mergeVars == <<mdiffs, merged, mpc>>
\* The variables of the specifications of single functions.
estimateVars == <<lang_deltas, bytes_per_loc, loc, epc>>
storeVars == <<disk, spc, saving, before, interrupted, loaded>>
scanVars == <<fs, exclude_globs, scan, total_skipped, scpc>>
payloadVars == <<payload_in, payload, ppc>>
discoverVars == <<watch_root, subdirs, vpc>>
cliVars == <<cli_result, printed, exit_code, cpc>>
moreVars == <<payloadVars, discoverVars, cliVars>>
pureVars == <<diffVars, mergeVars, estimateVars, storeVars, scanVars, moreVars>>
vars == <<orchVars, pureVars>>

EmptyMap == [p \in {} |-> 0]

MapPut(m, k, v) == [x \in DOMAIN m \cup {k} |-> IF x = k THEN v ELSE m[x]]

CycleInit ==
  /\ marker = FALSE
  /\ files = [f \in StateFiles |-> None]
  /\ pc = "idle"
  /\ state_path = NoPath
  /\ is_first_run = FALSE
  /\ projects = <<>>
  /\ idx = 1
  /\ diffs = <<>>
  /\ project_ids = <<>>
  /\ first_scan_projects = <<>>
  /\ prev = None
  /\ snap = None
  /\ subdir_diff = None
  /\ result = NotRun
  /\ fresh = FALSE
  /\ scanned = EmptyMap
  /\ used = EmptyMap
  /\ outputs = {}

OrchInit == CycleInit /\ ledger = LedgerOff /\ calm = CalmOff

DiffOff ==
  /\ old = None
  /\ new = None
  /\ agg = None
  /\ dpc = "off"

MergeOff ==
  /\ mdiffs = <<>>
  /\ merged = None
  /\ mpc = "off"

EstimateOff ==
  /\ lang_deltas = EmptyDict
  /\ bytes_per_loc = EmptyDict
  /\ loc = None
  /\ epc = "off"

PayloadOff ==
  /\ payload_in = None
  /\ payload = None
  /\ ppc = "off"

DiscoverOff ==
  /\ watch_root = None
  /\ subdirs = None
  /\ vpc = "off"

CliOff ==
  /\ cli_result = None
  /\ printed = <<>>
  /\ exit_code = None
  /\ cpc = "off"

MoreOff == PayloadOff /\ DiscoverOff /\ CliOff

\* No load_snapshot has returned since the file last changed.
NotLoaded == [not_loaded |-> TRUE]

StoreOff ==
  /\ disk = None
  /\ spc = "off"
  /\ saving = None
  /\ before = None
  /\ interrupted = FALSE
  /\ loaded = NotLoaded

ScanOff ==
  /\ fs = None
  /\ exclude_globs = {}
  /\ scan = None
  /\ total_skipped = 0
  /\ scpc = "off"

\* run_once up to its project loop.
StartCycle ==
  /\ pc = "idle"
  /\ \E sp \in ExplicitStatePaths \cup {NoPath}, ps \in DiscoveredLists :
       /\ state_path' = sp
       /\ projects' = ps
       /\ fresh' = \A i \in 1..Len(ps) : files[PerWatchState(sp, ps[i])] = None
       /\ calm' = IF calm = CalmOff THEN calm
                  ELSE [calm EXCEPT !.quiet = (ps = calm.last_projects)]
  /\ is_first_run' = _is_first_run(marker)
  /\ pc' = "loop"
  /\ idx' = 1
  /\ diffs' = <<>>
  /\ project_ids' = <<>>
  /\ first_scan_projects' = <<>>
  /\ prev' = None
  /\ snap' = None
  /\ subdir_diff' = None
  /\ result' = NotRun
  /\ scanned' = EmptyMap
  /\ used' = EmptyMap
  /\ outputs' = {}
  /\ UNCHANGED <<marker, files, ledger, pureVars>>

\* Mutant of SubdirDiff: the previous snapshot is not used.
SubdirDiff_prev_ignored(subdir, pv, sn, first_run) ==
  IF pv = None /\ first_run THEN None
  ELSE compute_diff(Snapshot(subdir, EmptyEntries), sn)

\* The diff a project contributes: compute_diff against its previous snapshot,
\* nothing on the first run, compute_diff against the empty snapshot otherwise.
SubdirDiff(subdir, pv, sn, first_run) ==
  IF pv # None THEN compute_diff(pv, sn)
  ELSE IF first_run THEN None
  ELSE compute_diff(Snapshot(subdir, EmptyEntries), sn)

\* Whether the diff is appended to diffs (and the id to project_ids).
Qualifies(pv, d, first_run) ==
  IF pv # None THEN has_changes(d)
  ELSE IF first_run THEN FALSE
  ELSE has_files(d)

\* Whether the project is appended to first_scan_projects.
Baselined(pv, first_run) == pv = None /\ first_run

\* One iteration of `for subdir in subdirs`: load, scan, diff, save.
ProcessProject ==
  /\ pc = "loop"
  /\ idx <= Len(projects)
  /\ LET subdir == projects[idx]
         per_watch_state == PerWatchState(state_path, subdir)
         pv == files[per_watch_state]
     IN pv # Malformed /\ \E sn \in ScanResults(subdir) :
          LET d == SubdirDiff(subdir, pv, sn, is_first_run)
              q == Qualifies(pv, d, is_first_run)
          IN /\ prev' = pv
             /\ snap' = sn
             /\ subdir_diff' = d
             /\ diffs' = IF q THEN Append(diffs, d) ELSE diffs
             /\ project_ids' =
                  IF q THEN Append(project_ids, project_id_for_watch_path(subdir))
                  ELSE project_ids
             /\ first_scan_projects' =
                  IF Baselined(pv, is_first_run)
                  THEN Append(first_scan_projects, subdir)
                  ELSE first_scan_projects
             /\ files' = [files EXCEPT ![per_watch_state] = sn]
             /\ scanned' = MapPut(scanned, subdir, sn)
             /\ used' = MapPut(used, subdir, per_watch_state)
             /\ ledger' =
                  IF ledger = LedgerOff THEN ledger
                  ELSE [ledger EXCEPT
                          !.base = IF subdir \in DOMAIN @ THEN @
                                   ELSE MapPut(@, subdir,
                                               IF Baselined(pv, is_first_run)
                                               THEN TotalFileBytes(sn)
                                               ELSE 0)]
             /\ calm' = IF calm = CalmOff THEN calm
                        ELSE [calm EXCEPT !.quiet = @ /\ sn = pv]
  /\ idx' = idx + 1
  /\ UNCHANGED <<marker, pc, state_path, is_first_run, projects, result, fresh,
                 outputs, pureVars>>

\* if is_first_run: _mark_first_run_complete(state_dir)
MarkerAfterLoop(m, first_run) == m \/ first_run

\* After the loop: the marker, then the no-activity return or the report stage.
EndLoop ==
  /\ pc = "loop"
  /\ idx > Len(projects)
  /\ marker' = MarkerAfterLoop(marker, is_first_run)
  /\ IF diffs = <<>>
     THEN /\ result' = NoActivityResult(first_scan_projects)
          /\ pc' = "idle"
          /\ calm' = IF calm = CalmOff THEN calm
                     ELSE [calm EXCEPT !.last_projects = projects]
     ELSE /\ result' = result
          /\ pc' = "report"
          /\ calm' = calm
  /\ UNCHANGED <<files, state_path, is_first_run, projects, idx, diffs,
                 project_ids, first_scan_projects, prev, snap, subdir_diff,
                 fresh, scanned, used, outputs, ledger, pureVars>>

\* merge, summary, report files, viz event, git step, and the returned dict.
Report ==
  /\ pc = "report"
  /\ result' = ActivityResult(merge_diff_aggregates(diffs), project_ids,
                              first_scan_projects)
  /\ outputs' = AllOutputs
  /\ ledger' = IF ledger = LedgerOff THEN ledger
               ELSE [ledger EXCEPT
                       !.reported = AddReported(@, project_ids, diffs)]
  /\ calm' = IF calm = CalmOff THEN calm
             ELSE [calm EXCEPT !.last_projects = projects]
  /\ pc' = "idle"
  /\ UNCHANGED <<marker, files, state_path, is_first_run, projects, idx, diffs,
                 project_ids, first_scan_projects, prev, snap, subdir_diff,
                 fresh, scanned, used, pureVars>>

\* An exception leaves run_once: an I/O error of load_snapshot, of the scan's
\* root, of save_snapshot or of the marker (loop), or of a report writer. The
\* locals go with the frame; the state directory stays as it is.
CycleFails ==
  /\ pc \in {"loop", "report"}
  /\ pc' = "idle"
  /\ result' = Raised
  /\ state_path' = NoPath
  /\ is_first_run' = FALSE
  /\ projects' = <<>>
  /\ idx' = 1
  /\ diffs' = <<>>
  /\ project_ids' = <<>>
  /\ first_scan_projects' = <<>>
  /\ prev' = None
  /\ snap' = None
  /\ subdir_diff' = None
  /\ fresh' = FALSE
  /\ scanned' = EmptyMap
  /\ used' = EmptyMap
  /\ outputs' \in IF pc = "report" THEN PartialOutputs ELSE {{}}
  /\ UNCHANGED <<marker, files, ledger, calm, pureVars>>

\* prev = load_snapshot(per_watch_state) raises on a malformed state file; no
\* try encloses the call, so the exception leaves run_once.
LoadFails ==
  /\ pc = "loop"
  /\ idx <= Len(projects)
  /\ files[PerWatchState(state_path, projects[idx])] = Malformed
  /\ pc' = "idle"
  /\ result' = LoadRaised
  /\ state_path' = NoPath
  /\ is_first_run' = FALSE
  /\ projects' = <<>>
  /\ idx' = 1
  /\ diffs' = <<>>
  /\ project_ids' = <<>>
  /\ first_scan_projects' = <<>>
  /\ prev' = None
  /\ snap' = None
  /\ subdir_diff' = None
  /\ fresh' = FALSE
  /\ scanned' = EmptyMap
  /\ used' = EmptyMap
  /\ UNCHANGED <<marker, files, outputs, ledger, calm, pureVars>>

\* save_snapshot(per_watch_state, snap) stops after path.write_text has opened
\* the file (disk full, process killed): a prefix of the document stays in the
\* state file and the exception leaves run_once.
SaveTruncated ==
  /\ pc = "loop"
  /\ idx <= Len(projects)
  /\ files[PerWatchState(state_path, projects[idx])] # Malformed
  /\ files' = [files EXCEPT ![PerWatchState(state_path, projects[idx])] =
                               Malformed]
  /\ pc' = "idle"
  /\ result' = Raised
  /\ state_path' = NoPath
  /\ is_first_run' = FALSE
  /\ projects' = <<>>
  /\ idx' = 1
  /\ diffs' = <<>>
  /\ project_ids' = <<>>
  /\ first_scan_projects' = <<>>
  /\ prev' = None
  /\ snap' = None
  /\ subdir_diff' = None
  /\ fresh' = FALSE
  /\ scanned' = EmptyMap
  /\ used' = EmptyMap
  /\ UNCHANGED <<marker, outputs, ledger, calm, pureVars>>

Init ==
  OrchInit /\ DiffOff /\ MergeOff /\ EstimateOff /\ StoreOff /\ ScanOff /\ MoreOff

Next ==
  \/ StartCycle
  \/ ProcessProject
  \/ EndLoop
  \/ Report
  \/ CycleFails
  \/ LoadFails
  \/ SaveTruncated

Spec == Init /\ [][Next]_vars

(* ============================== LedgerSpec ============================= *)
\* The cycles that run with the default state files (no state_path argument)
\* and return, with the history of what they reported.

LedgerInit ==
  /\ CycleInit
  /\ ledger = NewLedger
  /\ calm = CalmOff
  /\ DiffOff /\ MergeOff /\ EstimateOff /\ StoreOff /\ ScanOff /\ MoreOff

\* run_once(cfg), as cmd_run and the UI call it.
DefaultStartCycle == StartCycle /\ state_path' = NoPath

LedgerNext == DefaultStartCycle \/ ProcessProject \/ EndLoop \/ Report

LedgerSpec == LedgerInit /\ [][LedgerNext]_vars

(* =============================== QuietSpec ============================= *)
\* The same cycles, with the history of whether the trees have changed since
\* the cycle before.

QuietInit ==
  /\ CycleInit
  /\ ledger = LedgerOff
  /\ calm = NewCalm
  /\ DiffOff /\ MergeOff /\ EstimateOff /\ StoreOff /\ ScanOff /\ MoreOff

QuietNext == DefaultStartCycle \/ ProcessProject \/ EndLoop \/ Report

QuietSpec == QuietInit /\ [][QuietNext]_vars

(* ------------------- compute_diff on a pair of snapshots ---------------- *)

\* The relative paths of the snapshots compute_diff is applied to.
DiffPaths == {"a.py", "b.png"}

\* A second Python file, present or not, beside the entries over DiffPaths.
WithSecondPython(e) ==
  [r \in DOMAIN e \cup {"d.pyi"} |->
     IF r = "d.pyi" THEN RegMeta("d.pyi", MaxSize, 1) ELSE e[r]]

DiffSnapshots ==
  {Snapshot("/x", e) : e \in EntriesOver(DiffPaths)}
    \cup {Snapshot("/x", WithSecondPython(e)) : e \in EntriesOver(DiffPaths)}

\* The snapshots of tests/test_diff.py.
GoldenOld ==
  Snapshot("/x", [r \in {"a.py", "b.png"} |->
                    IF r = "a.py" THEN FileMeta("a.py", FALSE, 10, 1, "py")
                    ELSE FileMeta("b.png", FALSE, 100, 1, "png")])
GoldenNew ==
  Snapshot("/x", [r \in {"a.py", "c.ts"} |->
                    IF r = "a.py" THEN FileMeta("a.py", FALSE, 30, 2, "py")
                    ELSE FileMeta("c.ts", FALSE, 90, 1, "ts")])

DiffInputs ==
  ((DiffSnapshots \cup {None}) \X DiffSnapshots) \cup {<<GoldenOld, GoldenNew>>}

DiffInit ==
  /\ OrchInit
  /\ MoreOff
  /\ \E input \in DiffInputs : old = input[1] /\ new = input[2]
  /\ agg = None
  /\ dpc = "input"
  /\ MergeOff
  /\ EstimateOff
  /\ StoreOff
  /\ ScanOff

\* agg = compute_diff(old, new)
ComputeDiff ==
  /\ dpc = "input"
  /\ agg' = compute_diff(old, new)
  /\ dpc' = "done"
  /\ UNCHANGED <<old, new, orchVars, moreVars, mergeVars, estimateVars, storeVars,
                 scanVars>>

DiffNext == ComputeDiff

DiffSpec == DiffInit /\ [][DiffNext]_vars

(* ----------------- merge_diff_aggregates on its own --------------------- *)

\* The relative paths of the project trees whose diffs are merged.
MergePaths == {"a.py", "b.png", "c.ts"}

\* The per-project diffs a cycle can collect: the diffs of one-path trees.
MergeInputs ==
  UNION {{compute_diff(o, n) :
            o \in {Snapshot("proj1", e) : e \in EntriesOver({r})} \cup {None},
            n \in {Snapshot("proj1", e) : e \in EntriesOver({r})}} :
         r \in MergePaths}

\* The lists run_once and callers pass: up to three diffs.
MergeLists == UNION {[1..n -> MergeInputs] : n \in 0..3}

MergeInit ==
  /\ OrchInit
  /\ MoreOff
  /\ DiffOff
  /\ mdiffs \in MergeLists
  /\ merged = None
  /\ mpc = "input"
  /\ EstimateOff
  /\ StoreOff
  /\ ScanOff

\* merged = merge_diff_aggregates(mdiffs)
MergeDiffs ==
  /\ mpc = "input"
  /\ merged' = merge_diff_aggregates(mdiffs)
  /\ mpc' = "done"
  /\ UNCHANGED <<mdiffs, orchVars, moreVars, diffVars, estimateVars, storeVars, scanVars>>

MergeNext == MergeDiffs

MergeSpec == MergeInit /\ [][MergeNext]_vars

(* ------------- estimate_loc_from_language_deltas on its own ------------- *)

EstimateLanguages == {"Python", "TypeScript"}

\* The dicts over EstimateLanguages with values in vals; a language can be
\* absent.
DictsOver(vals) ==
  UNION {[L -> vals] : L \in SUBSET EstimateLanguages}

\* language_delta_bytes with bytes_per_loc: every pair of small dicts, and the
\* calibration of 40 bytes per line against +400 and -400 bytes.
EstimateInputs ==
  (DictsOver(-MaxDelta..MaxDelta) \X DictsOver(-1..MaxBpl))
    \cup {<<[l \in {"Python"} |-> 400], [l \in {"Python"} |-> 40]>>,
          <<[l \in {"Python"} |-> -400], [l \in {"Python"} |-> 40]>>}

EstimateInit ==
  /\ OrchInit
  /\ MoreOff
  /\ DiffOff
  /\ MergeOff
  /\ \E input \in EstimateInputs :
       lang_deltas = input[1] /\ bytes_per_loc = input[2]
  /\ loc = None
  /\ epc = "input"
  /\ StoreOff
  /\ ScanOff

\* loc = estimate_loc_from_language_deltas(lang_deltas, bytes_per_loc=...)
EstimateLoc ==
  /\ epc = "input"
  /\ loc' = estimate_loc_from_language_deltas(lang_deltas, bytes_per_loc)
  /\ epc' = "done"
  /\ UNCHANGED <<lang_deltas, bytes_per_loc, orchVars, moreVars, diffVars, mergeVars,
                 storeVars, scanVars>>

EstimateNext == EstimateLoc

EstimateSpec == EstimateInit /\ [][EstimateNext]_vars

(* ---------------- save_snapshot and load_snapshot on a file ------------- *)

\* The snapshots save_snapshot is called with: snapshot_from_scan of a tree
\* of one path, at one of two times.
StoreSnapshots ==
  {StoredSnapshot(1, "proj1", t, e) :
     t \in {"t1", "t2"}, e \in EntriesOver(TreePaths)}

\* d without the keys outside keys.
Restrict(d, keys) == [k \in DOMAIN d \cap keys |-> d[k]]

\* A document of one file entry.
FullDocument == RawOf(StoredSnapshot(1, "proj1", "t1",
                        [r \in {"a.py"} |-> RegMeta("a.py", MaxSize, 1)]))

\* The well-formed documents a file can hold that lack keys: FullDocument
\* without some of its top-level keys, or with an entry without some of its
\* keys.
SparseDocuments ==
  {Restrict(FullDocument, K) : K \in SUBSET DOMAIN FullDocument}
    \cup {[FullDocument EXCEPT !.entries =
             [r \in {"a.py"} |-> Restrict(FullDocument.entries[r], K)]] :
          K \in SUBSET DOMAIN FullDocument.entries["a.py"]}

StoreInit ==
  /\ OrchInit
  /\ MoreOff
  /\ DiffOff
  /\ MergeOff
  /\ EstimateOff
  /\ disk \in {None} \cup {File(doc, TRUE) : doc \in SparseDocuments}
  /\ spc = "idle"
  /\ saving = None
  /\ before = None
  /\ interrupted = FALSE
  /\ loaded = NotLoaded
  /\ ScanOff

\* save_snapshot up to the open of path.write_text: the file is created or
\* truncated, and what is in it from here on is a prefix of the new text.
SaveOpen ==
  /\ spc = "idle"
  /\ \E snapshot \in StoreSnapshots :
       /\ saving' = snapshot
       /\ disk' = File(RawOf(snapshot), FALSE)
  /\ before' = disk
  /\ interrupted' = FALSE
  /\ loaded' = NotLoaded
  /\ spc' = "writing"
  /\ UNCHANGED <<orchVars, moreVars, diffVars, mergeVars, estimateVars, scanVars>>

\* The rest of path.write_text: the text is written and the file closed.
SaveWritten ==
  /\ spc = "writing"
  /\ disk' = File(disk.doc, TRUE)
  /\ spc' = "idle"
  /\ UNCHANGED <<saving, before, interrupted, loaded>>
  /\ UNCHANGED <<orchVars, moreVars, diffVars, mergeVars, estimateVars, scanVars>>

\* path.write_text fails or the process stops after the open (disk full, file
\* size limit, kill): the file keeps the prefix.
SaveInterrupted ==
  /\ spc = "writing"
  /\ interrupted' = TRUE
  /\ spc' = "idle"
  /\ UNCHANGED <<disk, saving, before, loaded>>
  /\ UNCHANGED <<orchVars, moreVars, diffVars, mergeVars, estimateVars, scanVars>>

\* save_snapshot fails before the open (mkdir or open raising): the file is
\* untouched.
SaveRefused ==
  /\ spc = "idle"
  /\ \E snapshot \in StoreSnapshots : saving' = snapshot
  /\ before' = disk
  /\ interrupted' = TRUE
  /\ loaded' = NotLoaded
  /\ UNCHANGED <<disk, spc>>
  /\ UNCHANGED <<orchVars, moreVars, diffVars, mergeVars, estimateVars, scanVars>>

\* loaded = load_snapshot(path)
Load ==
  /\ spc = "idle"
  /\ loaded' = load_snapshot(disk)
  /\ UNCHANGED <<disk, spc, saving, before, interrupted>>
  /\ UNCHANGED <<orchVars, moreVars, diffVars, mergeVars, estimateVars, scanVars>>

StoreNext == SaveOpen \/ SaveWritten \/ SaveInterrupted \/ SaveRefused \/ Load

StoreSpec == StoreInit /\ [][StoreNext]_vars

(* ------------------- scan_folder_metadata_only on a tree ---------------- *)

\* The paths a scanned tree can hold: a .git and a vendor directory with a
\* file each, directly under the root and under the directory sub.
ScanPaths ==
  {<<".git">>, <<".git", "config">>, <<"vendor">>, <<"vendor", "b.png">>,
   <<"sub">>, <<"sub", "a.py">>, <<"sub", ".git">>, <<"sub", ".git", "config">>,
   <<"sub", "vendor">>, <<"sub", "vendor", "b.png">>}

ScanDirNames == {".git", "vendor", "sub"}

\* What stat gives for a path of ScanPaths.
NodeOf(path) ==
  IF path[Len(path)] \in ScanDirNames
  THEN [is_dir |-> TRUE, size |-> MaxSize + 1, mtime_ns |-> 1]
  ELSE [is_dir |-> FALSE, size |-> MaxSize, mtime_ns |-> 1]

\* The trees over ScanPaths: every path has its parent.
ScanTrees ==
  {T \in SUBSET ScanPaths :
     \A path \in T : Len(path) > 1 => SubSeq(path, 1, Len(path) - 1) \in T}

\* A tree with at most one path whose stat fails and at most one directory
\* whose listing fails, scanned by a runtime whose iterdir is lazy or not.
FileSystems ==
  UNION {
    {[nodes |-> [path \in T |-> NodeOf(path)], stat_fails |-> sf,
      list_fails |-> lf, lazy_iterdir |-> lazy] :
       sf \in {{}} \cup {{path} : path \in T},
       lf \in {{}} \cup {{path} : path \in {d \in T : NodeOf(d).is_dir} \cup {<<>>}},
       lazy \in BOOLEAN} :
    T \in ScanTrees}

\* cfg.exclude_globs: nothing, or the pattern "vendor/".
CallerExcludes == {{}, {DirPattern("vendor")}}

ScanInit ==
  /\ OrchInit
  /\ MoreOff
  /\ DiffOff
  /\ MergeOff
  /\ EstimateOff
  /\ StoreOff
  /\ fs \in FileSystems
  /\ exclude_globs \in CallerExcludes
  /\ scan = None
  /\ total_skipped = 0
  /\ scpc = "input"

\* scan = scan_folder_metadata_only(subdir, exclude_globs=cfg.exclude_globs)
Scan ==
  /\ scpc = "input"
  /\ scan' = scan_folder_metadata_only(fs, exclude_globs)
  /\ scpc' = "scanned"
  /\ UNCHANGED <<fs, exclude_globs, total_skipped>>
  /\ UNCHANGED <<orchVars, moreVars, diffVars, mergeVars, estimateVars, storeVars>>

\* total_skipped += int(scan.skipped)
AddSkipped ==
  /\ scpc = "scanned"
  /\ scan.result # ScanRaised
  /\ total_skipped' = total_skipped + scan.result.skipped
  /\ scpc' = "done"
  /\ UNCHANGED <<fs, exclude_globs, scan>>
  /\ UNCHANGED <<orchVars, moreVars, diffVars, mergeVars, estimateVars, storeVars>>

\* The exception of the scan leaves run_once.
ScanFails ==
  /\ scpc = "scanned"
  /\ scan.result = ScanRaised
  /\ scpc' = "failed"
  /\ UNCHANGED <<fs, exclude_globs, scan, total_skipped>>
  /\ UNCHANGED <<orchVars, moreVars, diffVars, mergeVars, estimateVars, storeVars>>

ScanNext == Scan \/ AddSkipped \/ ScanFails

ScanSpec == ScanInit /\ [][ScanNext]_vars

(* ============================== PayloadSpec ============================ *)
\* run_once's reporting of one diff: compute_diff, build_activity_summary and
\* build_event_payload over a pair of snapshots.

\* The calibration of tests/test_report_payload_privacy.py and a finer one,
\* each with a list of project ids.
PayloadSettings ==
  {[bytes_per_loc |-> [l \in {"Python"} |-> 40], project_ids |-> <<>>],
   [bytes_per_loc |-> [l \in {"Python", "TypeScript"} |->
                         IF l = "Python" THEN 1 ELSE MaxBpl],
    project_ids |-> <<project_id_for_watch_path("proj1")>>]}

PayloadOf(before_snapshot, after_snapshot, setting) ==
  build_event_payload(
    "event",
    build_activity_summary(compute_diff(before_snapshot, after_snapshot),
                           setting.bytes_per_loc),
    setting.project_ids)

PayloadInit ==
  /\ OrchInit
  /\ \E input \in DiffInputs : old = input[1] /\ new = input[2]
  /\ agg = None
  /\ dpc = "off"
  /\ MergeOff
  /\ EstimateOff
  /\ StoreOff
  /\ ScanOff
  /\ payload_in \in PayloadSettings
  /\ payload = None
  /\ ppc = "input"
  /\ DiscoverOff
  /\ CliOff

\* payload = build_event_payload(event_id,
\*             build_activity_summary(compute_diff(old, new), bytes_per_loc),
\*             project_ids)
BuildPayload ==
  /\ ppc = "input"
  /\ payload' = PayloadOf(old, new, payload_in)
  /\ ppc' = "done"
  /\ UNCHANGED <<payload_in, orchVars, diffVars, mergeVars, estimateVars,
                 storeVars, scanVars, discoverVars, cliVars>>

PayloadNext == BuildPayload

PayloadSpec == PayloadInit /\ [][PayloadNext]_vars

(* ============================== DiscoverSpec =========================== *)
\* The auto-detection of projects under one watch root.

DiscoverNames ==
  {<<"a", "p", "p">>, <<"l", "i", "b">>, <<".", "g", "i", "t">>,
   <<".", "e", "n", "v">>, <<"v", "1", ".", "2">>}

\* Every watch root: a directory with any of the names as a file or as a
\* directory, or a path that is no directory.
WatchRoots ==
  {[is_dir |-> FALSE, children |-> {}]}
    \cup {[is_dir |-> TRUE,
           children |-> {Child(n, n \in dirs) : n \in present}] :
            present \in SUBSET DiscoverNames, dirs \in SUBSET DiscoverNames}

DiscoverInit ==
  /\ OrchInit
  /\ DiffOff
  /\ MergeOff
  /\ EstimateOff
  /\ StoreOff
  /\ ScanOff
  /\ PayloadOff
  /\ watch_root \in WatchRoots
  /\ subdirs = None
  /\ vpc = "input"
  /\ CliOff

\* subdirs = [p for p in parent.iterdir() if ...] or [parent]
Discover ==
  /\ vpc = "input"
  /\ subdirs' \in DiscoverSubdirs(watch_root)
  /\ vpc' = "done"
  /\ UNCHANGED <<watch_root, orchVars, diffVars, mergeVars, estimateVars,
                 storeVars, scanVars, payloadVars, cliVars>>

\* parent.iterdir() raises (the root cannot be listed): run_once ends with the
\* exception.
DiscoverFails ==
  /\ vpc = "input"
  /\ watch_root.is_dir
  /\ vpc' = "failed"
  /\ UNCHANGED <<watch_root, subdirs, orchVars, diffVars, mergeVars,
                 estimateVars, storeVars, scanVars, payloadVars, cliVars>>

DiscoverNext == Discover \/ DiscoverFails

DiscoverSpec == DiscoverInit /\ [][DiscoverNext]_vars

(* ================================= CliSpec ============================= *)
\* cmd_run after run_once has returned.

CliSummaries ==
  {ActivitySummary(ZeroAggregates.counts, t, 0, n, c, <<>>) :
     t \in -1..1, n \in -1..1, c \in 0..1}

GitStatuses ==
  {[enabled |-> TRUE, committed |-> TRUE, pushed |-> TRUE,
    commit_sha |-> "sha", message |-> "committed"],
   [enabled |-> TRUE, committed |-> FALSE, pushed |-> FALSE,
    error |-> "git failed"]}

FirstScanLists == {<<>>, <<"proj1">>, <<"proj1", "proj2">>}

\* What run_once can return.
RunOnceReturns ==
  {NoActivityReturn(f) : f \in FirstScanLists}
    \cup {ActivityReturn(s, <<project_id_for_watch_path("proj1")>>, f, k, g, r) :
            s \in CliSummaries, f \in FirstScanLists, k \in 0..1,
            g \in GitStatuses, r \in BOOLEAN}

CliInit ==
  /\ OrchInit
  /\ DiffOff
  /\ MergeOff
  /\ EstimateOff
  /\ StoreOff
  /\ ScanOff
  /\ PayloadOff
  /\ DiscoverOff
  /\ cli_result \in RunOnceReturns
  /\ printed = <<>>
  /\ exit_code = None
  /\ cpc = "called"

\* The prints of cmd_run and its return.
CmdRun ==
  /\ cpc = "called"
  /\ LET run == CmdRunPrints(cli_result, 1, <<>>)
     IN /\ printed' = run.printed
        /\ exit_code' = run.exit_code
  /\ cpc' = "done"
  /\ UNCHANGED <<cli_result, orchVars, diffVars, mergeVars, estimateVars,
                 storeVars, scanVars, payloadVars, discoverVars>>

CliNext == CmdRun

CliSpec == CliInit /\ [][CliNext]_vars

(* ======================= properties of compute_diff ==================== *)

\* The keys of the two arguments of compute_diff, and their partition.
OldKeys == IF old = None THEN {} ELSE DOMAIN old.entries
NewKeys == DOMAIN new.entries
OnlyNewFiles == {r \in NewKeys \ OldKeys : ~new.entries[r].is_dir}
OnlyNewDirs == {r \in NewKeys \ OldKeys : new.entries[r].is_dir}
OnlyOldFiles == {r \in OldKeys \ NewKeys : ~old.entries[r].is_dir}
FlipToFile ==
  {r \in OldKeys \cap NewKeys : old.entries[r].is_dir /\ ~new.entries[r].is_dir}
FlipToDir ==
  {r \in OldKeys \cap NewKeys : ~old.entries[r].is_dir /\ new.entries[r].is_dir}
ChangedFiles ==
  {r \in OldKeys \cap NewKeys :
     /\ ~old.entries[r].is_dir
     /\ ~new.entries[r].is_dir
     /\ \/ old.entries[r].size_bytes # new.entries[r].size_bytes
        \/ old.entries[r].mtime_ns # new.entries[r].mtime_ns}

\* The language the extension table of estimate.py gives the model's extensions.
ExpectedLanguage(ext) ==
  CASE ext \in {"py", "pyi"} -> "Python"
    [] ext = "ts" -> "TypeScript"
    [] OTHER -> NoLanguage

\* The signed delta and the classifying extension of a file that is added,
\* removed or modified.
FileDelta(r) ==
  IF r \in OnlyNewFiles THEN new.entries[r].size_bytes
  ELSE IF r \in OnlyOldFiles THEN -old.entries[r].size_bytes
  ELSE new.entries[r].size_bytes - old.entries[r].size_bytes
FileExt(r) == IF r \in OnlyOldFiles THEN old.entries[r].ext ELSE new.entries[r].ext

RECURSIVE SumFileDeltas(_)
SumFileDeltas(rels) ==
  IF rels = {} THEN 0
  ELSE LET r == CHOOSE x \in rels : TRUE
       IN FileDelta(r) + SumFileDeltas(rels \ {r})

RECURSIVE SumSizes(_, _)
SumSizes(entries, rels) ==
  IF rels = {} THEN 0
  ELSE LET r == CHOOSE x \in rels : TRUE
       IN entries[r].size_bytes + SumSizes(entries, rels \ {r})

ClassifiedAs(rels, lang) == {r \in rels : ExpectedLanguage(FileExt(r)) = lang}

DeltaFiles == OnlyNewFiles \cup OnlyOldFiles \cup ChangedFiles

\* C7: every file only in new is counted added with +size, every file only in
\* old removed with -size, every changed common file modified with new size
\* minus old size; each delta goes to the language of the file's extension, or
\* to unknown_delta_bytes with the matching asset counter; the snapshots of
\* test_diff.py give 1 added, 1 removed, 1 modified, Python 20, TypeScript 90,
\* unknown -100, total 10.
C7_DiffClassifiesFileDeltas ==
  dpc = "done" =>
    /\ agg.counts.files_added = Cardinality(OnlyNewFiles) + Cardinality(FlipToFile)
    /\ agg.counts.files_removed = Cardinality(OnlyOldFiles) + Cardinality(FlipToDir)
    /\ agg.counts.files_modified = Cardinality(ChangedFiles)
    /\ agg.counts.assets_added = Cardinality(ClassifiedAs(OnlyNewFiles, NoLanguage))
    /\ agg.counts.assets_removed = Cardinality(ClassifiedAs(OnlyOldFiles, NoLanguage))
    /\ agg.counts.assets_modified = Cardinality(ClassifiedAs(ChangedFiles, NoLanguage))
    /\ agg.unknown_delta_bytes = SumFileDeltas(ClassifiedAs(DeltaFiles, NoLanguage))
    /\ DOMAIN agg.language_delta_bytes =
         {ExpectedLanguage(FileExt(r)) : r \in DeltaFiles} \ {NoLanguage}
    /\ \A lang \in DOMAIN agg.language_delta_bytes :
         agg.language_delta_bytes[lang] = SumFileDeltas(ClassifiedAs(DeltaFiles, lang))
    /\ (old = GoldenOld /\ new = GoldenNew) =>
         /\ agg.counts.files_added = 1
         /\ agg.counts.files_removed = 1
         /\ agg.counts.files_modified = 1
         /\ agg.language_delta_bytes = [Python |-> 20, TypeScript |-> 90]
         /\ agg.unknown_delta_bytes = -100
         /\ agg.total_delta_bytes = 10

\* compute_diff has run on the snapshots of test_diff.py.
C7_Witness ==
  /\ dpc = "done"
  /\ old = GoldenOld
  /\ new = GoldenNew
  /\ agg.counts.files_modified = 1

\* C8: total_delta_bytes is the sum of every signed delta: +size of the added
\* files, -size of the removed files, the delta of a type flip (+new size for
\* directory to file, -old size for file to directory) and new size minus old
\* size of the modified files, zero deltas included.
C8_TotalIsSumOfDeltas ==
  dpc = "done" =>
    agg.total_delta_bytes =
      SumFileDeltas(DeltaFiles) + SumSizes(new.entries, FlipToFile)
        - (IF old = None THEN 0 ELSE SumSizes(old.entries, FlipToDir))

\* A diff with a type flip that carries bytes, next to a modified file.
C8_Witness ==
  /\ dpc = "done"
  /\ \E r \in FlipToFile : new.entries[r].size_bytes > 0
  /\ ChangedFiles # {}
  /\ agg.total_delta_bytes # 0

\* C9: with an absent old snapshot compute_diff gives what it gives for an old
\* snapshot without entries: every file of new is added and classified by its
\* extension, every directory is folder-added, the removed and modified
\* counters are 0 and total_delta_bytes is the sum of the file sizes of new.
C9_AbsentOldIsEmptyOld ==
  (dpc = "done" /\ (old = None \/ OldKeys = {})) =>
    /\ agg = compute_diff(Snapshot("/x", EmptyEntries), new)
    /\ agg = compute_diff(None, new)
    /\ agg.counts.files_added = Cardinality({r \in NewKeys : ~new.entries[r].is_dir})
    /\ agg.counts.folders_added = Cardinality({r \in NewKeys : new.entries[r].is_dir})
    /\ agg.counts.assets_added =
         Cardinality({r \in NewKeys : /\ ~new.entries[r].is_dir
                                      /\ ExpectedLanguage(new.entries[r].ext) = NoLanguage})
    /\ agg.counts.files_removed = 0
    /\ agg.counts.files_modified = 0
    /\ agg.counts.folders_removed = 0
    /\ agg.counts.folders_modified = 0
    /\ agg.counts.assets_removed = 0
    /\ agg.counts.assets_modified = 0
    /\ agg.total_delta_bytes =
         SumSizes(new.entries, {r \in NewKeys : ~new.entries[r].is_dir})

\* compute_diff has run with old absent on a snapshot with a file and a directory.
C9_Witness ==
  /\ dpc = "done"
  /\ old = None
  /\ \E r \in NewKeys : new.entries[r].is_dir
  /\ \E r \in NewKeys : ~new.entries[r].is_dir /\ new.entries[r].size_bytes > 0
  /\ agg.counts.files_added > 0

\* C10: compute_diff(S, S) has its nine counters at 0, unknown_delta_bytes 0,
\* total_delta_bytes 0 and no nonzero language delta.
C10_SelfDiffIsZero ==
  (dpc = "done" /\ old = new) =>
    /\ \A f \in DOMAIN agg.counts : agg.counts[f] = 0
    /\ DOMAIN agg.counts =
         {"files_added", "files_removed", "files_modified", "folders_added",
          "folders_removed", "folders_modified", "assets_added",
          "assets_modified", "assets_removed"}
    /\ agg.unknown_delta_bytes = 0
    /\ agg.total_delta_bytes = 0
    /\ \A lang \in DOMAIN agg.language_delta_bytes :
         agg.language_delta_bytes[lang] = 0

\* compute_diff has run on a snapshot, holding files and a directory, and itself.
C10_Witness ==
  /\ dpc = "done"
  /\ old = new
  /\ \E r \in NewKeys : new.entries[r].is_dir
  /\ \E r \in NewKeys : ~new.entries[r].is_dir /\ new.entries[r].size_bytes > 0
  /\ agg.total_delta_bytes = 0

\* The common files whose size is unchanged and whose mtime changed.
MtimeOnlyFiles ==
  {r \in ChangedFiles : old.entries[r].size_bytes = new.entries[r].size_bytes}

\* The common directories whose mtime changed.
TouchedDirs ==
  {r \in OldKeys \cap NewKeys :
     /\ old.entries[r].is_dir
     /\ new.entries[r].is_dir
     /\ old.entries[r].mtime_ns # new.entries[r].mtime_ns}

\* new with the entries at rels taken from old.
NewWithOldAt(rels) ==
  [new EXCEPT !.entries =
     [r \in NewKeys |-> IF r \in rels THEN old.entries[r] ELSE new.entries[r]]]

\* s without the entries at rels.
Without(s, rels) ==
  [s EXCEPT !.entries = [r \in (DOMAIN s.entries) \ rels |-> s.entries[r]]]

\* d.get(lang, 0)
LangValue(d, lang) == IF lang \in DOMAIN d THEN d[lang] ELSE 0

\* C11: for a path in both snapshots with the same directory flag, a directory
\* is folder-modified iff its mtime differs and a file is file-modified iff its
\* size or mtime differs; a file with only its mtime changed is counted modified
\* with delta 0: total, unknown and language bytes are those of the diff
\* without that change.
C11_ModifiedByMtimeOrSize ==
  (dpc = "done" /\ old # None) =>
    /\ agg.counts.folders_modified = Cardinality(TouchedDirs)
    /\ agg.counts.files_modified = Cardinality(ChangedFiles)
    /\ LET base == compute_diff(old, NewWithOldAt(MtimeOnlyFiles))
       IN /\ agg.counts.files_modified =
               base.counts.files_modified + Cardinality(MtimeOnlyFiles)
          /\ agg.total_delta_bytes = base.total_delta_bytes
          /\ agg.unknown_delta_bytes = base.unknown_delta_bytes
          /\ \A lang \in DOMAIN agg.language_delta_bytes :
               agg.language_delta_bytes[lang]
                 = LangValue(base.language_delta_bytes, lang)
          /\ DOMAIN base.language_delta_bytes \subseteq DOMAIN agg.language_delta_bytes

\* A file with only its mtime changed, beside a directory with its mtime changed.
C11_Witness ==
  /\ dpc = "done"
  /\ old # None
  /\ MtimeOnlyFiles # {}
  /\ TouchedDirs # {}
  /\ agg.counts.files_modified > 0
  /\ agg.total_delta_bytes = 0

\* C12: a common path whose directory flag differs is one removal of the old
\* type and one addition of the new type and nothing else: against the diff of
\* the snapshots without the flipped paths, directory to file adds 1 to
\* folders_removed and files_added and the new size to the total, file to
\* directory adds 1 to files_removed and folders_added and minus the old size,
\* and every other counter and sum is the same.
C12_TypeFlipIsRemovePlusAdd ==
  (dpc = "done" /\ old # None) =>
    LET flips == FlipToFile \cup FlipToDir
        base == compute_diff(Without(old, flips), Without(new, flips))
    IN /\ agg.counts.folders_removed =
            base.counts.folders_removed + Cardinality(FlipToFile)
       /\ agg.counts.files_added = base.counts.files_added + Cardinality(FlipToFile)
       /\ agg.counts.files_removed = base.counts.files_removed + Cardinality(FlipToDir)
       /\ agg.counts.folders_added = base.counts.folders_added + Cardinality(FlipToDir)
       /\ agg.total_delta_bytes =
            base.total_delta_bytes + SumSizes(new.entries, FlipToFile)
              - SumSizes(old.entries, FlipToDir)
       /\ agg.counts.files_modified = base.counts.files_modified
       /\ agg.counts.folders_modified = base.counts.folders_modified
       /\ agg.counts.assets_modified = base.counts.assets_modified
       /\ agg.counts.assets_added = base.counts.assets_added
       /\ agg.counts.assets_removed = base.counts.assets_removed
       /\ agg.unknown_delta_bytes = base.unknown_delta_bytes
       /\ agg.language_delta_bytes = base.language_delta_bytes

\* A diff with a directory that became a file with bytes and a file with bytes
\* that became a directory.
C12_Witness ==
  /\ dpc = "done"
  /\ old # None
  /\ \E r \in FlipToFile : new.entries[r].size_bytes > 0
  /\ \E r \in FlipToDir : old.entries[r].size_bytes > 0
  /\ agg.counts.folders_removed > 0
  /\ agg.counts.folders_added > 0


(* ========================= properties of run_once ====================== *)

\* run_once has returned its dict (it neither runs nor raised).
Returned ==
  pc = "idle" /\ result # NotRun /\ result # Raised /\ result # LoadRaised

\* The project of the last completed loop iteration.
LastProject == projects[idx - 1]

\* The last iteration's project is in project_ids, with its diff in diffs.
Listed(subdir) ==
  \E j \in 1..Len(project_ids) : project_ids[j] = <<"Project", subdir>>
Included(subdir, d) ==
  \E j \in 1..Len(project_ids) :
    /\ j <= Len(diffs)
    /\ project_ids[j] = <<"Project", subdir>>
    /\ diffs[j] = d

SnapFiles(s) == {r \in DOMAIN s.entries : ~s.entries[r].is_dir}

RECURSIVE SumTotals(_)
SumTotals(ds) ==
  IF ds = <<>> THEN 0
  ELSE ds[Len(ds)].total_delta_bytes + SumTotals(SubSeq(ds, 1, Len(ds) - 1))

RECURSIVE SumCount(_, _)
SumCount(ds, f) ==
  IF ds = <<>> THEN 0
  ELSE ds[Len(ds)].counts[f] + SumCount(SubSeq(ds, 1, Len(ds) - 1), f)

\* C1: a cycle that starts without the first-run marker and without a state
\* file for any discovered project collects no diff and returns no event id,
\* leaves a snapshot persisted for every discovered project and the marker
\* present.
C1_FirstCycleIsBaselineOnly ==
  (is_first_run /\ fresh) =>
    /\ diffs = <<>>
    /\ Returned =>
         /\ result.event_id = "None"
         /\ \A i \in 1..Len(projects) : files[used[projects[i]]] # None
         /\ marker

\* C2: in a cycle that starts with the marker present, a project whose state
\* file does not exist is diffed against the empty snapshot: every file of its
\* scan is added with +size, and the diff is included iff it has an added file
\* or a nonzero total (a project of directories only is not included).
C2_NewProjectDiffedAgainstEmpty ==
  (idx > 1 /\ ~is_first_run /\ prev = None) =>
    /\ subdir_diff # None
    /\ subdir_diff.counts.files_added = Cardinality(SnapFiles(snap))
    /\ subdir_diff.counts.files_removed = 0
    /\ subdir_diff.counts.files_modified = 0
    /\ subdir_diff.counts.folders_added =
         Cardinality(DOMAIN snap.entries \ SnapFiles(snap))
    /\ subdir_diff.total_delta_bytes = SumSizes(snap.entries, SnapFiles(snap))
    /\ Included(LastProject, subdir_diff) <=>
         \/ Cardinality(SnapFiles(snap)) > 0
         \/ SumSizes(snap.entries, SnapFiles(snap)) # 0
    /\ Listed(LastProject) <=> SnapFiles(snap) # {}
    /\ Len(diffs) = Len(project_ids)
    /\ first_scan_projects = <<>>

\* A new project whose only file is empty has been included.
C2_Witness ==
  /\ idx > 1
  /\ ~is_first_run
  /\ prev = None
  /\ SnapFiles(snap) # {}
  /\ subdir_diff.total_delta_bytes = 0
  /\ Included(LastProject, subdir_diff)

\* C3: the diff of a project with a prior snapshot is included, and the
\* project's id listed, iff files_added > 0 or files_modified > 0 or
\* files_removed > 0 or total_delta_bytes != 0; any other diff adds nothing to
\* the lists, and the returned aggregate sums exactly the listed diffs.
C3_InclusionThreshold ==
  /\ (idx > 1 /\ prev # None) =>
       /\ subdir_diff # None
       /\ Included(LastProject, subdir_diff) <=>
            \/ subdir_diff.counts.files_added > 0
            \/ subdir_diff.counts.files_modified > 0
            \/ subdir_diff.counts.files_removed > 0
            \/ subdir_diff.total_delta_bytes # 0
       /\ Listed(LastProject) <=> Included(LastProject, subdir_diff)
       /\ Len(diffs) = Len(project_ids)
  /\ (Returned /\ result.event_id = "event") =>
       /\ result.project_ids = project_ids
       /\ result.projects_with_activity = Len(diffs)
       /\ result.total_delta_bytes = SumTotals(diffs)
       /\ \A f \in DOMAIN result.counts : result.counts[f] = SumCount(diffs, f)

\* A project with a prior snapshot whose only change is a folder change was
\* discarded.
C3_Witness ==
  /\ idx > 1
  /\ prev # None
  /\ subdir_diff.counts.folders_modified + subdir_diff.counts.folders_added > 0
  /\ ~Listed(LastProject)

\* C4: after a cycle that returns, the state file of every discovered project
\* holds the snapshot scanned for that project in this cycle.
C4_EveryProjectPersisted ==
  Returned =>
    \A i \in 1..Len(projects) :
      /\ projects[i] \in DOMAIN scanned
      /\ files[used[projects[i]]] = scanned[projects[i]]

\* C5: the marker is created only after the loop of a cycle that started
\* without it, when every project of the cycle has its snapshot saved; a cycle
\* that fails in its loop leaves it absent; it is never removed; and a cycle
\* started with the marker present baselines no project.
C5_MarkerStep ==
  /\ marker' # marker =>
       /\ ~marker
       /\ marker'
       /\ is_first_run
       /\ pc = "loop"
       /\ idx > Len(projects)
       /\ \A i \in 1..Len(projects) :
            /\ projects[i] \in DOMAIN scanned
            /\ files[used[projects[i]]] # None
  /\ marker => marker'
  /\ (pc = "loop" /\ is_first_run /\ result' = Raised) => ~marker'
  /\ (pc = "idle" /\ pc' = "loop") => (is_first_run' <=> ~marker)
  /\ Len(first_scan_projects') > Len(first_scan_projects) =>
       /\ ~marker
       /\ is_first_run
       /\ prev' = None

C5_MarkerSingleForwardTransition == [][C5_MarkerStep]_vars

\* A first cycle over two projects has returned: both baselined, marker present.
C5_Witness ==
  /\ Returned
  /\ marker
  /\ is_first_run
  /\ Len(projects) = 2
  /\ Len(first_scan_projects) = 2

\* C6: no two projects of a cycle load from and save to the same state file.
C6_StateFilePrivate ==
  \A p \in DOMAIN used : \A q \in DOMAIN used : p # q => used[p] # used[q]

RECURSIVE SumUnknown(_)
SumUnknown(xs) ==
  IF xs = <<>> THEN 0
  ELSE xs[Len(xs)].unknown_delta_bytes + SumUnknown(SubSeq(xs, 1, Len(xs) - 1))

RECURSIVE SumLanguage(_, _)
SumLanguage(xs, lang) ==
  IF xs = <<>> THEN 0
  ELSE LangValue(xs[Len(xs)].language_delta_bytes, lang)
         + SumLanguage(SubSeq(xs, 1, Len(xs) - 1), lang)

\* C13: merge_diff_aggregates is the element-wise sum of the counters, the
\* per-language deltas, the unknown sum and the total; every permutation of
\* the list gives the same aggregate; merging the merges of a prefix and of the
\* rest gives the merge of the whole list; the empty list gives the all-zero
\* aggregate with an empty language map.
C13_MergeIsElementwiseSum ==
  mpc = "done" =>
    /\ \A f \in DOMAIN merged.counts : merged.counts[f] = SumCount(mdiffs, f)
    /\ merged.total_delta_bytes = SumTotals(mdiffs)
    /\ merged.unknown_delta_bytes = SumUnknown(mdiffs)
    /\ DOMAIN merged.language_delta_bytes =
         UNION {DOMAIN mdiffs[i].language_delta_bytes : i \in 1..Len(mdiffs)}
    /\ \A lang \in DOMAIN merged.language_delta_bytes :
         merged.language_delta_bytes[lang] = SumLanguage(mdiffs, lang)
    /\ \A perm \in Permutations(1..Len(mdiffs)) :
         merge_diff_aggregates([i \in 1..Len(mdiffs) |-> mdiffs[perm[i]]]) = merged
    /\ \A k \in 0..Len(mdiffs) :
         merge_diff_aggregates(
           <<merge_diff_aggregates(SubSeq(mdiffs, 1, k)),
             merge_diff_aggregates(SubSeq(mdiffs, k + 1, Len(mdiffs)))>>) = merged
    /\ mdiffs = <<>> =>
         /\ merged = ZeroAggregates
         /\ merged.language_delta_bytes = EmptyDict
         /\ \A f \in DOMAIN merged.counts : merged.counts[f] = 0

\* Three diffs merged, two of them with bytes of the same language and one
\* with bytes of another.
C13_Witness ==
  /\ mpc = "done"
  /\ Len(mdiffs) = 3
  /\ \E i, j, k \in 1..3 :
       /\ i # j
       /\ "Python" \in DOMAIN mdiffs[i].language_delta_bytes
       /\ "Python" \in DOMAIN mdiffs[j].language_delta_bytes
       /\ mdiffs[i].language_delta_bytes["Python"] # 0
       /\ mdiffs[j].language_delta_bytes["Python"] # 0
       /\ mdiffs[i] # mdiffs[j]
       /\ "TypeScript" \in DOMAIN mdiffs[k].language_delta_bytes
  /\ DOMAIN merged.language_delta_bytes = {"Python", "TypeScript"}

\* The languages of lang_deltas with a positive calibration.
Calibrated ==
  {l \in DOMAIN lang_deltas :
     l \in DOMAIN bytes_per_loc /\ bytes_per_loc[l] > 0}

\* c is n / d rounded: no integer is nearer, and of two nearest c is the even.
IsRounded(c, n, d) ==
  /\ 2 * Abs(n - c * d) <= d
  /\ 2 * Abs(n - c * d) = d => c % 2 = 0

Rounded(n, d) == CHOOSE c \in -Abs(n)..Abs(n) : IsRounded(c, n, d)

RECURSIVE SumRounded(_, _)
SumRounded(langs, absolute) ==
  IF langs = {} THEN 0
  ELSE LET l == CHOOSE x \in langs : TRUE
           n == IF absolute THEN Abs(lang_deltas[l]) ELSE lang_deltas[l]
       IN Rounded(n, bytes_per_loc[l]) + SumRounded(langs \ {l}, absolute)

\* C14: net is the sum of round(delta / bpl) and churn the sum of
\* round(|delta| / bpl) over exactly the languages with a positive calibration;
\* a language with an absent, zero or negative calibration changes neither sum
\* (the estimate is that of the dict without it); +400 bytes at 40 bytes per
\* line give net 10 and churn 10, -400 bytes give net -10 and churn 10; the
\* estimate is defined for every input.
C14_EstimateSumsCalibratedLanguages ==
  /\ epc = "input" => ENABLED EstimateLoc
  /\ epc = "done" =>
      /\ loc.net_loc = SumRounded(Calibrated, FALSE)
      /\ loc.churn_loc = SumRounded(Calibrated, TRUE)
      /\ loc = estimate_loc_from_language_deltas(
                 [l \in Calibrated |-> lang_deltas[l]], bytes_per_loc)
      /\ (lang_deltas = [l \in {"Python"} |-> 400]
            /\ bytes_per_loc = [l \in {"Python"} |-> 40])
           => loc = LocEstimates(10, 10)
      /\ (lang_deltas = [l \in {"Python"} |-> -400]
            /\ bytes_per_loc = [l \in {"Python"} |-> 40])
           => loc = LocEstimates(-10, 10)

\* An estimate over a negative delta that does not divide by its calibration
\* and a language with bytes and a calibration that is not positive.
C14_Witness ==
  /\ epc = "done"
  /\ \E l \in Calibrated :
       /\ lang_deltas[l] < 0
       /\ lang_deltas[l] % bytes_per_loc[l] # 0
  /\ \E l \in DOMAIN lang_deltas \ Calibrated : lang_deltas[l] # 0
  /\ loc.net_loc < 0
  /\ loc.churn_loc > 0

\* C15: after a save that failed or was interrupted at any point,
\* load_snapshot on the path sees the complete previous file or the complete
\* new snapshot, never a partially written file.
C15_InterruptedSaveIsInvisible ==
  (spc = "idle" /\ interrupted /\ loaded # NotLoaded) =>
    \/ loaded = load_snapshot(before)
    \/ loaded = load_snapshot(File(RawOf(saving), TRUE))

\* C16: load_snapshot returns absent when the file does not exist, and for
\* every well-formed document it returns a snapshot, every missing key of the
\* document and of its entries filled with a default.
C16_LoadFillsEveryMissingKey ==
  (spc = "idle" /\ loaded # NotLoaded) =>
    /\ disk = None => loaded = None
    /\ (disk # None /\ disk.complete) =>
         /\ loaded # None
         /\ DOMAIN loaded = {"schema_version", "root", "created_at", "entries"}
         /\ DOMAIN loaded.entries = DOMAIN Get(disk.doc, "entries", EmptyEntries)
         /\ \A r \in DOMAIN loaded.entries :
              DOMAIN loaded.entries[r] =
                {"rel_path", "is_dir", "size_bytes", "mtime_ns", "ext"}

\* The scan has returned or raised.
Scanned == scpc \in {"scanned", "done", "failed"}

\* C17: the only I/O operations of a scan on the scanned tree are directory
\* listings and stats, for every tree and every exclusion list: no path is
\* opened or read, a listing is of the root or of a directory of the tree, and
\* a stat is of a path of the tree.
C17_ScanListsAndStatsOnly ==
  Scanned =>
    \A op \in scan.ops :
      \/ /\ op[1] = "iterdir"
         /\ \/ op[2] = <<>>
            \/ op[2] \in DOMAIN fs.nodes /\ fs.nodes[op[2]].is_dir
      \/ /\ op[1] = "stat"
         /\ op[2] \in DOMAIN fs.nodes

\* A scan with a caller's exclusion that returned the entry of a file with
\* bytes, after a stat of it.
C17_Witness ==
  /\ Scanned
  /\ exclude_globs # {}
  /\ scan.result # ScanRaised
  /\ \E rel \in DOMAIN scan.result.entries :
       /\ ~scan.result.entries[rel].is_dir
       /\ scan.result.entries[rel].size_bytes > 0
       /\ <<"stat", rel>> \in scan.ops
       /\ <<"iterdir", SubSeq(rel, 1, Len(rel) - 1)>> \in scan.ops

\* C18: a scan result has no entry under a directory of a default-excluded
\* name (.git and the others), at any depth and directly under the root, and
\* no such directory is listed.
C18_DefaultExclusionsAlwaysApply ==
  (Scanned /\ scan.result # ScanRaised) =>
    /\ \A rel \in DOMAIN scan.result.entries :
         \A i \in 1..(Len(rel) - 1) : rel[i] \notin DefaultExcludedNames
    /\ \A op \in scan.ops :
         op[1] = "iterdir" =>
           \A i \in 1..Len(op[2]) : op[2][i] \notin DefaultExcludedNames

\* C19: with the caller's pattern "vendor/", a scan result has neither a
\* directory named vendor nor a path beneath one, wherever it sits, directly
\* under the root included.
C19_DirPatternExcludesDirAndContent ==
  (Scanned /\ scan.result # ScanRaised /\ DirPattern("vendor") \in exclude_globs) =>
    \A rel \in DOMAIN scan.result.entries :
      \A i \in 1..Len(rel) : rel[i] # "vendor"

\* The patterns of the scan.
Excludes == default_excludes \cup exclude_globs

\* The proper ancestors of path below the root.
Ancestors(path) == {SubSeq(path, 1, n) : n \in 1..(Len(path) - 1)}

\* The walk reaches the stat of path: no ancestor is excluded, fails its stat
\* or fails its listing, and path is not excluded.
StatTried(path) ==
  /\ <<>> \notin fs.list_fails
  /\ ~_is_excluded(path, Excludes)
  /\ \A a \in Ancestors(path) :
       /\ ~_is_excluded(a, Excludes)
       /\ a \notin fs.stat_fails
       /\ a \notin fs.list_fails

\* The failures the walk meets: the stats that fail and the listings that fail.
FailuresMet ==
  Cardinality({path \in fs.stat_fails : StatTried(path)})
    + Cardinality({d \in fs.list_fails :
                     \/ d = <<>>
                     \/ StatTried(d) /\ d \notin fs.stat_fails})

\* C20: a stat failure or a listing failure never aborts the scan: skipped is
\* the number of failures met, the entries are all the paths that are not
\* excluded and not behind a failure or an exclusion, and run_once adds the
\* scan's skipped to its total.
C20_FailuresAreSkippedNotFatal ==
  Scanned =>
    /\ scan.result # ScanRaised
    /\ scan.result.skipped = FailuresMet
    /\ DOMAIN scan.result.entries =
         {path \in DOMAIN fs.nodes : StatTried(path) /\ path \notin fs.stat_fails}
    /\ scpc # "failed"
    /\ scpc = "done" => total_skipped = scan.result.skipped

RECURSIVE SumDict(_, _)
SumDict(d, keys) ==
  IF keys = {} THEN 0
  ELSE LET k == CHOOSE x \in keys : TRUE
       IN d[k] + SumDict(d, keys \ {k})

\* total_delta_bytes minus the unknown sum and every language sum.
Unclassified(d) ==
  d.total_delta_bytes - d.unknown_delta_bytes
    - SumDict(d.language_delta_bytes, DOMAIN d.language_delta_bytes)

\* The bytes of the type flips: the new sizes of the directories that became
\* files minus the old sizes of the files that became directories.
FlipBytes ==
  IF old = None THEN 0
  ELSE SumSizes(new.entries, FlipToFile) - SumSizes(old.entries, FlipToDir)

\* C26 as stated: for every pair of snapshots, type flips included, the result
\* of compute_diff has total_delta_bytes = unknown_delta_bytes + the sum of the
\* language_delta_bytes values.
C26_TotalIsUnknownPlusLanguages ==
  dpc = "done" => Unclassified(agg) = 0

\* C26 amended: total_delta_bytes = unknown_delta_bytes + the sum of the
\* language_delta_bytes values + the bytes of the type flips, so the equality
\* of the claim holds for every pair without a type flip; and for a merge the
\* difference total - unknown - languages is the sum of the differences of the
\* merged diffs, so a merge of diffs with the equality has it.
C26_TotalIsClassifiedPlusFlipBytes ==
  dpc = "done" =>
    /\ Unclassified(agg) = FlipBytes
    /\ (FlipToFile \cup FlipToDir = {}) => Unclassified(agg) = 0
    /\ LET fromEmpty == compute_diff(None, new)
       IN /\ Unclassified(fromEmpty) = 0
          /\ Unclassified(merge_diff_aggregates(<<agg, fromEmpty>>)) =
               Unclassified(agg)
          /\ Unclassified(merge_diff_aggregates(<<agg, agg, fromEmpty>>)) =
               2 * Unclassified(agg)

\* A diff with a directory that became a file with bytes, beside an added file
\* of a language and a removed unclassified file.
C26_Witness ==
  /\ dpc = "done"
  /\ old # None
  /\ \E r \in FlipToFile : new.entries[r].size_bytes > 0
  /\ Unclassified(agg) > 0
  /\ agg.unknown_delta_bytes # 0 \/ DOMAIN agg.language_delta_bytes # {}

\* The sum of the sizes of the files of a snapshot.
FileBytes(s) ==
  IF s = None THEN 0
  ELSE SumSizes(s.entries, {r \in DOMAIN s.entries : ~s.entries[r].is_dir})

\* The snapshots between old and new that the additivity is checked through.
Midpoints ==
  {Snapshot("/x", e) : e \in EntriesOver(TreePaths)} \cup {GoldenOld, GoldenNew}

\* C27: directories having size 0, total_delta_bytes of compute_diff(old, new)
\* is the sum of the file sizes of new minus the sum of the file sizes of old,
\* for every mix of added, removed, modified, unmodified and type-flipped
\* entries; and the total from old to new is the total from old to a snapshot
\* plus the total from that snapshot to new.
C27_TotalIsFileBytesDifference ==
  dpc = "done" =>
    /\ \A r \in DOMAIN new.entries :
         new.entries[r].is_dir => new.entries[r].size_bytes = 0
    /\ agg.total_delta_bytes = FileBytes(new) - FileBytes(old)
    /\ \A mid \in Midpoints :
         agg.total_delta_bytes =
           compute_diff(old, mid).total_delta_bytes
             + compute_diff(mid, new).total_delta_bytes

\* A diff with an added, a shrunk and a type-flipped entry.
C27_Witness ==
  /\ dpc = "done"
  /\ old # None
  /\ OnlyNewFiles # {}
  /\ FlipToFile \cup FlipToDir # {}
  /\ \E r \in ChangedFiles : new.entries[r].size_bytes < old.entries[r].size_bytes
  /\ agg.total_delta_bytes = FileBytes(new) - FileBytes(old)

(* ----------------------------------------------------------------------- *)
\* A renaming of relative paths that keeps every entry's extension and
\* directory flag, with the root the renamed tree is watched at.
Renamings ==
  {[root |-> "/secret/project",
    to |-> [r \in {"a.py", "b.png", "c.ts", "d.pyi"} |->
              CASE r = "a.py" -> "private/a.py"
                [] r = "b.png" -> "private/secrets.png"
                [] r = "c.ts" -> "c.ts"
                [] r = "d.pyi" -> "stubs/d.pyi"]],
   [root |-> "/x",
    to |-> [r \in {"a.py", "b.png", "c.ts", "d.pyi"} |->
              CASE r = "a.py" -> "main.py"
                [] r = "b.png" -> "b.png"
                [] r = "c.ts" -> "web/app.ts"
                [] r = "d.pyi" -> "a.pyi"]]}

Renamed(s, f) ==
  IF s = None THEN None
  ELSE Snapshot(f.root,
                [q \in {f.to[r] : r \in DOMAIN s.entries} |->
                   LET r == CHOOSE x \in DOMAIN s.entries : f.to[x] = q
                   IN [s.entries[r] EXCEPT !.rel_path = q]])

PayloadKeys ==
  {"schema_version", "event_id", "watch_folders", "counts",
   "total_delta_bytes", "unknown_delta_bytes", "net_loc_estimate",
   "churn_loc_estimate", "languages"}

LanguageNames == {EXT_TO_LANGUAGE[e] : e \in DOMAIN EXT_TO_LANGUAGE}

\* C21: the event payload depends on the two snapshots only through counts,
\* byte deltas and language names.  Its keys are the nine keys of the schema,
\* its counts are the eight counters, its languages carry a language name of
\* EXT_TO_LANGUAGE with two integers, its watch_folders are the project ids it
\* was given: no relative path, file name or root.  The pair of snapshots
\* renamed by a renaming of paths that keeps extensions and directory flags
\* (and watched at another root) yields the identical payload.
C21_PayloadIsPathFree ==
  ppc = "done" =>
    /\ DOMAIN payload = PayloadKeys
    /\ DOMAIN payload.counts = DOMAIN ZeroAggregates.counts
    /\ \A f \in DOMAIN payload.counts : payload.counts[f] \in Nat
    /\ payload.watch_folders =
         IF payload_in.project_ids = <<>> THEN <<"Project-unknown">>
         ELSE payload_in.project_ids
    /\ \A i \in DOMAIN payload.languages :
         /\ DOMAIN payload.languages[i] =
              {"language", "delta_bytes", "estimated_loc_delta"}
         /\ payload.languages[i].language \in LanguageNames
         /\ payload.languages[i].delta_bytes \in Int
         /\ payload.languages[i].estimated_loc_delta \in Int
    /\ {payload.total_delta_bytes, payload.unknown_delta_bytes,
        payload.net_loc_estimate, payload.churn_loc_estimate} \subseteq Int
    /\ \A f \in Renamings :
         PayloadOf(Renamed(old, f), Renamed(new, f), payload_in) = payload

\* A payload of a pair with an added Python file and a file that changed, as
\* in tests/test_report_payload_privacy.py, reporting the language.
C21_Witness ==
  /\ ppc = "done"
  /\ old # None
  /\ "a.py" \in OnlyNewFiles
  /\ ChangedFiles # {}
  /\ Len(payload.languages) > 0
  /\ \E f \in Renamings : Renamed(new, f) # new

(* ----------------------------------------------------------------------- *)
\* The immediate subdirectories of the watch root, by name, and the hidden
\* ones among them.
Subdirectories ==
  IF watch_root.is_dir
  THEN {c.name : c \in {k \in watch_root.children : k.is_dir}}
  ELSE {}
Hidden == {n \in Subdirectories : Head(n) = "."}
ProjectsFound == {subdirs[i] : i \in DOMAIN subdirs}

\* C22: the projects of a watch root are exactly its immediate subdirectories
\* whose name does not start with a dot, each once; when there is none (only
\* files, only hidden directories, an empty root or a root that is no
\* directory), the root itself is the single project; a hidden subdirectory is
\* never a project.
C22_ProjectsAreVisibleSubdirectories ==
  vpc = "done" =>
    /\ Len(subdirs) = Cardinality(ProjectsFound)
    /\ IF Subdirectories \ Hidden # {}
       THEN ProjectsFound = {<<n>> : n \in Subdirectories \ Hidden}
       ELSE subdirs = << <<>> >>
    /\ \A n \in Hidden : <<n>> \notin ProjectsFound

\* A root with two visible subdirectories (one with a dot inside its name), a
\* hidden one and a file, discovered.
C22_Witness ==
  /\ vpc = "done"
  /\ Hidden # {}
  /\ Len(subdirs) = 2
  /\ << <<"v", "1", ".", "2">> >> \in ProjectsFound
  /\ \E c \in watch_root.children : ~c.is_dir

(* ----------------------------------------------------------------------- *)
\* C29: cmd_run returns exit code 0 for every result run_once can return:
\* every key it reads by subscript is present in the result, with activity
\* and without.
C29_CmdRunExitsZero ==
  cpc = "done" =>
    /\ exit_code = Return(0)
    /\ \A i \in DOMAIN CmdRunSubscripts :
         CmdRunSubscripts[i] \in DOMAIN cli_result

(* ----------------------------------------------------------------------- *)
\* The last iteration's diff passes the threshold of its branch, stated on the
\* snapshots: a prior snapshot and a file added, removed or modified or a
\* nonzero byte total; no prior snapshot after the first run and a file.
LastProjectChanged ==
  /\ idx > 1
  /\ subdir_diff # None
  /\ IF prev # None
     THEN \/ SnapFiles(snap) # SnapFiles(prev)
          \/ \E r \in SnapFiles(snap) : snap.entries[r] # prev.entries[r]
     ELSE SnapFiles(snap) # {}

\* C23: run_once produces an event iff at least one project of the cycle had
\* a qualifying diff.  With none it returns the no-activity result (no event
\* id, no report path) and has written no report file, appended no viz event
\* and run no git command; with one or more, the merged aggregate, the LOC
\* estimate and the project ids cover exactly the qualifying diffs.
C23_EventIffQualifyingDiff ==
  Returned =>
    /\ result.event_id = "event" <=> diffs # <<>>
    /\ LastProjectChanged => result.event_id = "event"
    /\ result.event_id # "event" =>
         /\ result = NoActivityResult(first_scan_projects)
         /\ outputs = {}
    /\ result.event_id = "event" =>
         /\ outputs = AllOutputs
         /\ Len(diffs) = Len(project_ids)
         /\ result.project_ids = project_ids
         /\ result.projects_with_activity = Len(diffs)
         /\ result.total_delta_bytes = SumTotals(diffs)
         /\ \A f \in DOMAIN result.counts : result.counts[f] = SumCount(diffs, f)
         /\ \A l \in DOMAIN result.language_delta_bytes :
              result.language_delta_bytes[l] = SumLanguage(diffs, l)
         /\ result.net_loc_estimate =
              estimate_loc_from_language_deltas(
                [l \in DOMAIN result.language_delta_bytes |->
                   SumLanguage(diffs, l)], CfgBytesPerLoc).net_loc
         /\ result.churn_loc_estimate =
              estimate_loc_from_language_deltas(
                [l \in DOMAIN result.language_delta_bytes |->
                   SumLanguage(diffs, l)], CfgBytesPerLoc).churn_loc

\* A cycle over two projects has reported both, with different diffs.
C23_Witness ==
  /\ Returned
  /\ result.event_id = "event"
  /\ Len(diffs) = 2
  /\ diffs[1] # diffs[2]
  /\ result.net_loc_estimate # 0

(* ----------------------------------------------------------------------- *)
\* The state file of the project the loop is about to process.
CurrentStateFile == PerWatchState(state_path, projects[idx])

\* C24: a cycle that meets a malformed state file still completes: the load
\* of that project yields no prior snapshot, the loop goes on to the next
\* project (the only other way out of the iteration being an I/O error), the
\* marker is left to the end of the loop, and no cycle ends with the exception
\* of load_snapshot.
C24_MalformedStep ==
  /\ (/\ pc = "loop"
      /\ idx <= Len(projects)
      /\ files[CurrentStateFile] = Malformed
      /\ result' # Raised) =>
       /\ pc' = "loop"
       /\ idx' = idx + 1
       /\ prev' = None
       /\ files'[CurrentStateFile] = snap'
       /\ marker' = marker
  /\ result' # LoadRaised

C24_MalformedSnapshotIsNoPrior == [][C24_MalformedStep]_vars

(* ----------------------------------------------------------------------- *)
\* C30: detected activity is never lost.  When a cycle with its default state
\* files ends with an exception in its report stage, after the last project's
\* qualifying diff was collected and before a report file was written, the state file of that
\* project still holds what it held when the project was loaded (the prior
\* snapshot, or no file), so that a later cycle computes the change again.
C30_FailedStep ==
  (/\ pc = "report"
   /\ state_path = NoPath
   /\ idx > 1
   /\ Qualifies(prev, subdir_diff, is_first_run)
   /\ pc' = "idle"
   /\ result' \in {Raised, LoadRaised}
   /\ "report_json" \notin outputs') =>
    files'[used[LastProject]] = prev

C30_ActivityNeverLost == [][C30_FailedStep]_vars

(* ----------------------------------------------------------------------- *)
\* C25: of two cycles run one after the other with the default state files
\* and no change of the file system between them (the same projects, every
\* tree as the first cycle scanned and saved it), the second emits no
\* activity event and writes nothing to the activity repository, and each of
\* its project steps leaves every persisted snapshot as it was.
C25_QuietStep ==
  /\ (pc = "loop" /\ pc' = "loop" /\ calm'.quiet) =>
       \A f \in StateFiles : files'[f] = files[f]
  /\ (pc = "loop" /\ pc' # "loop" /\ calm.quiet) =>
       /\ pc' = "idle"
       /\ result' = NoActivityResult(<<>>)
       /\ outputs' = {}
       /\ diffs = <<>>

C25_UnchangedTreesEmitNothing == [][C25_QuietStep]_vars

\* A second cycle over two unchanged projects, one of them with a file, has
\* returned.
C25_Witness ==
  /\ pc = "idle"
  /\ calm.quiet
  /\ Len(projects) = 2
  /\ result = NoActivityResult(<<>>)
  /\ \E f \in StateFiles : SnapFiles(files[f]) # {}
  /\ \A f \in StateFiles : files[f] # None

(* ----------------------------------------------------------------------- *)
\* The sum of total_delta_bytes of the project's diffs that went into reports.
ReportedFor(p) ==
  IF p \in DOMAIN ledger.reported THEN ledger.reported[p] ELSE 0

\* C28: between completed cycles run with the default state files, for every
\* project the sum of total_delta_bytes of its diffs included in reports
\* equals the file bytes of its latest persisted snapshot minus the file bytes
\* of its baseline snapshot (minus 0 for a project first seen after the first
\* run).
C28_ReportedBytesTelescope ==
  pc = "idle" =>
    \A p \in DOMAIN ledger.base :
      ReportedFor(p) =
        FileBytes(files[_state_path_for_watch_dir(p)]) - ledger.base[p]

\* A project baselined with a file that has since lost bytes, and a project
\* first seen after the first run whose bytes were reported.
C28_Witness ==
  /\ pc = "idle"
  /\ DOMAIN ledger.base = Projects
  /\ ledger.base["proj1"] > 0
  /\ ReportedFor("proj1") < 0
  /\ ledger.base["proj2"] = 0
  /\ ReportedFor("proj2") > 0

====
